---- MODULE Spec2Model ----
(***************************************************************************)
(* Model of the website-scanner's bounded crawler and memory guard.        *)
(*                                                                         *)
(*  - AsyncCrawlerService and its MemoryManager                            *)
(*      (src/website-scanner/app/services/crawler.py)                      *)
(*  - services.memory_manager.MemoryManager and the two memory monitors    *)
(*      (src/website-scanner/app/services/memory_manager.py,               *)
(*       src/website-scanner/app/main.py)                                  *)
(*                                                                         *)
(* Every coroutine is a process whose position is a pc value; one action   *)
(* is the code that runs between two awaits.                               *)
(***************************************************************************)
EXTENDS Integers, Sequences, FiniteSets, TLC

----------------------------------------------------------------------------
(* Bounds of the model *)

\* concurrent calls of crawl_website / crawl_with_fallback
NumScans == 2

\* self.max_concurrent (crawler.py line 61; 5 with the default settings)
max_concurrent == 1

\* crawler_config["retry_times"] (CRAWLER_RETRY_TIMES, 3 by default)
retry_times == 1

\* the timeout of wait_for_memory, in seconds (30 by default)
timeout == 3

\* concurrent calls of MemoryManager.get_browser_instance
NumGetters == 3

\* concurrent calls in the admission part of get_browser_instance
NumEntrants == 2

\* self.max_browsers (memory_manager.py line 30; 5 with the default
\* settings)
max_browsers == 1

\* the longest image list handed to check_content_safety
NumImages == 3

\* the longest list of violations in a scan result
MaxViolations == 2

\* the number of images of a page handed to check_compliance
MaxJobImages == 2

\* the rounds of the memory monitor, in units of MEMORY_CHECK_INTERVAL
MaxTicks == 9

\* the 24 hours of _cleanup_memory_history, in the same units
HistoryCutoff == 3

\* the callers of crawl_website that queue at the semaphore
NumCallers == 4

\* the number of browser instances created in all
MaxInstances == 4

\* the ttl of cache_result, in units of time
CacheTtl == 2

----------------------------------------------------------------------------
(* Program constants *)

\* crawler.MemoryManager(max_memory_percent=80.0)
max_memory_percent == 80

\* asyncio.sleep(2) of wait_for_memory
PollSleep == 2

\* values of get_memory_usage seen by the crawler
MemSamples == {60, 75, 85, 95}

\* self.memory_threshold = settings.MEMORY_MAX_PERCENT
memory_threshold == 80

\* memory_usage > 90 in _memory_monitoring_task
EmergencyPercent == 90

\* memory_usage > 95 in main.memory_monitoring_task
MainCleanupPercent == 95

\* values of get_memory_usage seen by the memory manager and the monitors
MonitorSamples == {70, 85, 90, 91, 96}

\* images[:3] of check_content_safety
MaxClassified == 3

\* self.alert_threshold = 0.7, in percent
alert_threshold == 70

\* "text": text_content[:10000] of crawl_website
TextCap == 10000

\* settings.CRAWLER_RETRY_TIMES, the default of crawler_config["retry_times"]
CRAWLER_RETRY_TIMES == 3

\* settings.CRAWLER_RETRY_DELAY, the default of crawler_config["retry_delay"],
\* in seconds
CRAWLER_RETRY_DELAY == 5

\* text_content[:5000] of crawl_website, for the text of the whole body
BodyTextCap == 5000

\* text_content[:1000] of crawl_with_fallback, for the text of the whole body
FallbackBodyTextCap == 1000

\* self.browser_config.get("max_images", 5)
max_images == 5

\* settings.BROWSER_TIMEOUT, the default of browser_config["timeout"], the
\* timeout of page.goto in crawl_website, in milliseconds
BROWSER_TIMEOUT == 10000

\* page.goto(url, timeout=15000) of crawl_with_fallback, in milliseconds
FallbackGotoTimeout == 15000

\* the tasks that call MemoryManager.get_browser_instance
Getters == 1..NumGetters

\* the tasks in the admission part of get_browser_instance
Entrants == 1..NumEntrants

\* the tasks that call the crawler
Scans == 1..NumScans

\* time passes in steps of PollSleep up to the timeout
Min(a, b) == IF a < b THEN a ELSE b

----------------------------------------------------------------------------
(* State of AsyncCrawlerService and of the scans running on it *)

VARIABLES
    semaphore,      \* value of self.semaphore
    sem_waiters,    \* FIFO queue of the scans blocked in semaphore.acquire()
    scan            \* the frame of each scan, a record with the fields below

(* Fields of scan[s]:                                                      *)
(*   pc          position of the coroutine                                 *)
(*   attempt     loop variable of crawl_website                            *)
(*   elapsed     time.time() - start_time inside wait_for_memory           *)
(*   browser     the instance of the current get_browser_instance          *)
(*   close_calls browser.close() calls made on that instance               *)
(*   launched    instances the call's get_browser_instance has launched    *)
(*   closed      instances the call's get_browser_instance has closed      *)
(*   fb_browser  the instance launched by the degraded pass                *)
(*   last_eval   result of the scan's latest check_memory_safe, "none"     *)
(*               once the scan has slept or ended an attempt since         *)
(*   after       what leaves the `async with` block once it is torn down   *)
(*   cancelled   the scan's latest step was the delivery of a              *)
(*               CancelledError (task.cancel())                            *)
(*   result      what the call gave its caller                             *)

cvars == <<semaphore, sem_waiters, scan>>

(* State of services.memory_manager.MemoryManager and of its tasks *)

VARIABLES
    active_browsers,    \* self.active_browsers; a browser is named after the
                        \* get_browser_instance call that created it
    browser_lock,       \* the task that holds self.browser_lock, 0 when free
    getter,             \* the frame of each get_browser_instance call
    monitor             \* the frame of the memory monitoring task

(* Fields of getter[g]:                                                    *)
(*   pc       position of the context manager                              *)
(*   browser  "none", "open" or "closed": the instance it created          *)
(* Fields of monitor:                                                      *)
(*   kind       which task runs: MemoryManager._memory_monitoring_task     *)
(*              ("manager") or main.memory_monitoring_task ("main");       *)
(*              "unstarted" before the task is created                     *)
(*   pc         position inside the current tick, "sleep" between ticks    *)
(*   usage      memory_usage, the sample of the current tick               *)
(*   to_release browsers_to_remove of _cleanup_old_browsers, not yet       *)
(*              released                                                   *)
(*   emergency  "no", "entered" (the emergency handler was called for this *)
(*              sample) or "done" (it ran to its end)                      *)
(*   swept      active_browsers was empty when the handler ended           *)
(*   latched    an earlier sample got emergency handling and no sample     *)
(*              below the threshold has been seen since                    *)

mvars == <<active_browsers, browser_lock, getter, monitor>>

(* State of the admission part of MemoryManager.get_browser_instance *)

VARIABLES
    entrant     \* the frame of each call between its entry and the lock

(* Fields of entrant[w]:                                                   *)
(*   pc        position: "idle", "wm_loop" (the while test of              *)
(*             wait_for_memory), "wm_gc" (await self.force_gc()),          *)
(*             "wm_sleep", "admitted" (the call goes on to the lock) or    *)
(*             "raised"                                                    *)
(*   elapsed   time.time() - start_time inside wait_for_memory             *)
(*   sample    the last memory_usage this call has read                    *)
(*   rounds    polling rounds of wait_for_memory entered                   *)
(*   gc_calls  calls of force_gc made by wait_for_memory                   *)
(*   outcome   "none", "admitted", "MemoryError", or "Exception" for what  *)
(*             force_gc raised                                             *)
(*   paused    usage has been between 80 and 90 percent and no sample      *)
(*             below 70 percent was read since                             *)

avars == <<entrant>>

(* State of ContentCheckerService and of the call running on it *)

VARIABLES
    check       \* the frame of the call of check_content_safety / _check_text

(* Fields of check:                                                        *)
(*   pc            position: "idle", "baidu", "aliyun", "local" (the three *)
(*                 stages of _check_text), "images" (the loop over the     *)
(*                 images), "except", "done" or "raised"                   *)
(*   entry         the method that was called                              *)
(*   text, images  its arguments                                           *)
(*   token         self.baidu_access_token is set                          *)
(*   key           self.aliyun_access_key is set                           *)
(*   calls         the providers _check_text has called, in order          *)
(*   answers       what each of these calls returned, None for a call that *)
(*                 raised                                                  *)
(*   text_result   the value of _check_text                                *)
(*   image_results the list of the same name                               *)
(*   i             position of the loop in images[:3], from 1              *)
(*   result        the value of check_content_safety                       *)

kvars == <<check>>

(* State of AlertIntegration and of the scan result it processes *)

VARIABLES
    alert       \* the frame of the call of process_scan_result

(* Fields of alert:                                                        *)
(*   pc          position: "idle", "build" (before _build_alert_data),     *)
(*               "create" (before _create_alert) or "done"                 *)
(*   enabled     self.alert_enabled                                        *)
(*   compliant   scan_result["compliant"]                                  *)
(*   violations  scan_result["violations"]                                 *)
(*   severity    alert_data["severity"], "none" before it is built         *)
(*   priority    alert_data["priority"]                                    *)
(*   outcome     what alert_client.post did: "created" (a response),       *)
(*               "None" (no response) or "raises"; "none" before the call  *)
(*   response    what _create_alert gave                                   *)
(*   returned    what process_scan_result returned, "none" before it ends  *)

lvars == <<alert>>

(* The page content that a crawl builds *)

VARIABLES
    page        \* the locals of crawl_website / crawl_with_fallback that
                \* hold the content of the page

(* Fields of page (every text and list is kept as its length):             *)
(*   pc            "idle", "extracted" or "returned"                       *)
(*   path          the method that runs                                    *)
(*   goto_timeout  the timeout its page.goto was given, in milliseconds    *)
(*   extracted     what _extract_text_content_async returned               *)
(*   body          page.inner_text("body")                                 *)
(*   found         what _extract_images_async returned                     *)
(*   text_content  the local of the same name                              *)
(*   image_urls    the local of the same name                              *)
(*   text, images  the entries of the dict that is returned                *)

pvars == <<page>>

(* The attempts of one call of crawl_website *)

VARIABLES
    retry       \* the loop of crawl_website, one step for each attempt

(* Fields of retry:                                                        *)
(*   pc        "attempt" (an attempt runs), "sleep" (a retry delay is      *)
(*             waited), or "done"                                          *)
(*   attempt   the loop variable                                           *)
(*   failures  what each failed attempt raised, in order                   *)
(*   delays    the retry delays waited so far, in seconds                  *)
(*   result    what the call returned, "pending" before                    *)

rvars == <<retry>>

(* The text extraction of one page *)

VARIABLES
    ext         \* the frame of a call of _extract_text_content_async

(* Fields of ext:                                                          *)
(*   pc            "idle", "loop" (the loop over the selectors), "body"    *)
(*                 (page.inner_text("body")), "walk" (page.evaluate),      *)
(*                 "strip" or "returned"                                   *)
(*   yields        for each selector, whether its element holds text       *)
(*   walk          whether the walk over the visible text nodes finds text *)
(*   i             position of the loop in selectors, from 1               *)
(*   text_content  the local of the same name, as the name of the place    *)
(*                 the text came from, "" when it is empty                 *)
(*   result        the value returned                                      *)

xvars == <<ext>>

(* One caller of ScanService.check_compliance *)

VARIABLES
    job         \* the frame of check_compliance and of the crawl it runs

(* Fields of job:                                                          *)
(*   pc            "idle", "acquire", "memory", "launch", "goto",          *)
(*                 "extract", "after_crawl", "check_text", "check_image",  *)
(*                 "summarise", "returned" or "raised"                     *)
(*   domain        the argument                                            *)
(*   attempt       the loop variable of crawl_website                      *)
(*   website_data  what the crawl returned                                 *)
(*   text_ok       text_result["compliant"]                                *)
(*   images_ok     whether every image result so far is compliant          *)
(*   i             the number of images checked                            *)
(*   result        the value returned                                      *)
(*   acquired, launched, navigated, classified                             *)
(*                 whether this call took the semaphore, launched a        *)
(*                 browser, called page.goto, called the content checker   *)
(*   cause         why the crawl returned None: "admission" (MemoryError), *)
(*                 "navigation" (the last attempt failed), else "none"     *)
(*   admission_results, navigation_results                                 *)
(*                 the results returned so far to calls whose crawl ended  *)
(*                 for the one cause and for the other                     *)

jvars == <<job>>

(* The callers of the operations wrapped by cache_result *)

VARIABLES
    cache       \* the Redis client, its keys and the frame of wrapper

(* Fields of cache:                                                        *)
(*   pc            "start" (before init_redis), "idle", "get", "call",     *)
(*                 "store", "await", "returned" or "raised"                *)
(*   redis_client  the module global: "None" or "client"                   *)
(*   kind, args    the wrapped function of the call ("sync", or "async"    *)
(*                 like crawl_website) and its arguments                   *)
(*   result        the value of the call so far                            *)
(*   store         for each cache key, the JSON text kept under it and the *)
(*                 time it has left, NoEntry when the key is absent        *)
(*   executed      whether the body of the wrapped function ran in this    *)
(*                 call                                                    *)
(*   read_error, backend_error                                             *)
(*                 whether redis_client.get, and whether any call of the   *)
(*                 client, raised in this call                             *)
(*   age           for each cache key, the time since a call with it that  *)
(*                 ran the wrapped function last completed with a working  *)
(*                 backend, at most CacheTtl                               *)

hvars == <<cache>>

(* The browser instances of services.memory_manager.MemoryManager, each    *)
(* with its identity                                                       *)

VARIABLES
    pool        \* the instances, the lock and the get_browser_instance calls

(* Fields of pool:                                                         *)
(*   active   self.active_browsers, a set of instances; an instance is     *)
(*            the number of its creation, so an older one is smaller       *)
(*   lock     the caller that holds self.browser_lock, 0 when free         *)
(*   next     the number the next instance gets                            *)
(*   pc       for each caller, the position of its get_browser_instance:   *)
(*            "idle", "lock", "yielded", or "stuck" (waiting for the lock  *)
(*            it holds itself)                                             *)
(*   held     for each caller, the instance it was given, 0 for none       *)
(*   handed   for each instance, how many times it was yielded to a caller *)
(*   closes   for each instance, how many times close() was called on it   *)
(*   evict    browsers_to_remove of a running _cleanup_old_browsers        *)

ivars == <<pool>>

(* The memory history of services.memory_manager.MemoryManager *)

VARIABLES
    hist        \* the clock and self.memory_history

(* Fields of hist:                                                         *)
(*   now             time.time(), in units of MEMORY_CHECK_INTERVAL        *)
(*   memory_history  self.memory_history: the 'timestamp' of each record,  *)
(*                   in the order of the list                              *)

tvars == <<hist>>

(* The callers of crawl_website at self.semaphore *)

VARIABLES
    slots       \* the asyncio.Semaphore of the crawler and its callers

(* Fields of slots:                                                        *)
(*   version   the asyncio.Semaphore of the interpreter: "legacy" (Python  *)
(*             3.8 to 3.10, the versions quick_start.py accepts from 3.8   *)
(*             on) or "fair" (3.11 and later); "unset" before the service  *)
(*             is created                                                  *)
(*   value     Semaphore._value, the free slots                            *)
(*   waiters   Semaphore._waiters: the callers whose future is pending     *)
(*   pc        for each caller: "out", "waiting", "woken" (future set, no  *)
(*             slot yet), "granted" (future set with the slot) or          *)
(*             "holding" (inside `async with self.semaphore`)              *)
(*   arrivals  the callers that have started to wait and have no slot yet, *)
(*             in the order in which they started                          *)

qvars == <<slots>>

not_crawler == <<mvars, avars, kvars, lvars, pvars, rvars, xvars, jvars, hvars, ivars, tvars, qvars>>

not_manager == <<cvars, avars, kvars, lvars, pvars, rvars, xvars, jvars, hvars, ivars, tvars, qvars>>

not_admission == <<cvars, mvars, kvars, lvars, pvars, rvars, xvars, jvars, hvars, ivars, tvars, qvars>>

not_content == <<cvars, mvars, avars, lvars, pvars, rvars, xvars, jvars, hvars, ivars, tvars, qvars>>

not_alert == <<cvars, mvars, avars, kvars, pvars, rvars, xvars, jvars, hvars, ivars, tvars, qvars>>

not_page == <<cvars, mvars, avars, kvars, lvars, rvars, xvars, jvars, hvars, ivars, tvars, qvars>>

not_retry == <<cvars, mvars, avars, kvars, lvars, pvars, xvars, jvars, hvars, ivars, tvars, qvars>>

not_extract == <<cvars, mvars, avars, kvars, lvars, pvars, rvars, jvars, hvars, ivars, tvars, qvars>>

not_service == <<cvars, mvars, avars, kvars, lvars, pvars, rvars, xvars, hvars, ivars, tvars, qvars>>

not_cache == <<cvars, mvars, avars, kvars, lvars, pvars, rvars, xvars, jvars, ivars, tvars, qvars>>

not_instances == <<cvars, mvars, avars, kvars, lvars, pvars, rvars, xvars, jvars, hvars, tvars, qvars>>

not_history == <<cvars, mvars, avars, kvars, lvars, pvars, rvars, xvars, jvars, hvars, ivars, qvars>>

not_queue == <<cvars, mvars, avars, kvars, lvars, pvars, rvars, xvars, jvars, hvars, ivars, tvars>>

vars == <<cvars, mvars, avars, kvars, lvars, pvars, rvars, xvars, jvars, hvars, ivars, tvars, qvars>>

----------------------------------------------------------------------------
(* crawler.MemoryManager *)

\* check_memory_safe (lines 35-37)
CheckMemorySafe(usage) == usage < max_memory_percent

\* the loop condition without the time limit
WaitLoopCondNoTimeout(usage, el) == ~CheckMemorySafe(usage)

\* the while condition of wait_for_memory (line 47) after el seconds
WaitLoopCond(usage, el) == (~CheckMemorySafe(usage)) /\ el < timeout

\* what a memory evaluation on this sample reported
EvalOf(usage) == IF CheckMemorySafe(usage) THEN "safe" ELSE "unsafe"

----------------------------------------------------------------------------
(* AsyncCrawlerService *)

Entries == {"crawl_website", "crawl_with_fallback"}

\* the frame of a scan that has not called yet
NewScan == [pc |-> "idle", attempt |-> 0, elapsed |-> 0, browser |-> "none",
            close_calls |-> 0, launched |-> 0, closed |-> 0,
            fb_browser |-> "none", last_eval |-> "none",
            after |-> "none", cancelled |-> FALSE, result |-> "pending"]

\* AsyncCrawlerService.__init__ (lines 57-66)
CrawlerInit ==
    /\ semaphore = max_concurrent
    /\ sem_waiters = <<>>
    /\ scan = [s \in Scans |-> NewScan]

\* the monitoring task before its first tick
NewMonitor == [kind |-> "unstarted", pc |-> "sleep", usage |-> 0,
               to_release |-> {}, emergency |-> "no", swept |-> FALSE,
               latched |-> FALSE]

\* MemoryManager.__init__ (memory_manager.py lines 22-30)
ManagerInit ==
    /\ active_browsers = {}
    /\ browser_lock = 0
    /\ getter = [g \in Getters |-> [pc |-> "idle", browser |-> "none"]]
    /\ monitor = NewMonitor

\* a call of get_browser_instance that has not started
NewEntrant == [pc |-> "idle", elapsed |-> 0, sample |-> 0, rounds |-> 0,
               gc_calls |-> 0, outcome |-> "none", paused |-> FALSE]

AdmissionInit == entrant = [w \in Entrants |-> NewEntrant]

\* positions inside `async with self.semaphore` (lines 115-219)
InSemaphore == {"cw_check", "cw_wait", "cw_wait_sleep", "gbi_check",
                "gbi_wait", "gbi_wait_sleep", "launch", "setup", "goto",
                "settle", "scroll", "extract", "retry_sleep_inner",
                "page_close", "browser_close", "leave", "retry_sleep_outer",
                "mem_error"}

\* every attempt is taken for the last one
FinalAttemptAlways(a) == TRUE

\* attempt == retry_times (lines 191, 198, 215)
FinalAttempt(a) == a = retry_times

\* an exit that never closes the browser
NeedsCloseSkipped(b) == FALSE

\* finally: if browser: (line 103)
NeedsClose(b) == b = "live"

\* result and result.get("text") (line 347)
HasText(val) == val = "page"

\* an exit that keeps its slot
SemReleaseNone(v) == v

\* Semaphore.release
SemRelease(v) == v + 1

\* a cancelled Semaphore.acquire leaves the queue of waiters
RemoveWaiter(q, s) == SelectSeq(q, LAMBDA x : x # s)

\* scan s moves to frame r; Semaphore.__aexit__ releases the slot on every
\* exit from the `async with self.semaphore` block
Move(s, r) ==
    /\ scan' = [scan EXCEPT ![s] = r]
    /\ semaphore' = IF scan[s].pc \in InSemaphore /\ r.pc \notin InSemaphore
                      THEN SemRelease(semaphore)
                      ELSE semaphore
    /\ UNCHANGED <<sem_waiters, not_crawler>>

\* an ordinary step of scan s to frame r
Step(s, r) == Move(s, [r EXCEPT !.cancelled = FALSE])

\* crawl_website is entered, by its caller or by line 346 of
\* crawl_with_fallback, which has no state of its own until the call returns.
\* async with self.semaphore: the fast path of Semaphore.acquire or a wait
Call(s) ==
    /\ scan[s].pc = "idle"
    /\ UNCHANGED not_crawler
    /\ IF semaphore > 0 /\ sem_waiters = <<>>
         THEN /\ semaphore' = semaphore - 1
              /\ scan' = [scan EXCEPT ![s].pc = "cw_check"]
              /\ UNCHANGED sem_waiters
         ELSE /\ sem_waiters' = Append(sem_waiters, s)
              /\ scan' = [scan EXCEPT ![s].pc = "sem_wait"]
              /\ UNCHANGED semaphore

\* Semaphore.acquire returns for the first waiter once a slot is free
SemAcquire(s) ==
    /\ scan[s].pc = "sem_wait"
    /\ semaphore > 0
    /\ Head(sem_waiters) = s
    /\ semaphore' = semaphore - 1
    /\ sem_waiters' = Tail(sem_waiters)
    /\ scan' = [scan EXCEPT ![s].pc = "cw_check"]
    /\ UNCHANGED not_crawler

\* the frame after crawl_website has ended with val, called through entry
\* point e: crawl_with_fallback goes on to the degraded pass unless the
\* result has text (line 347)
Returned(r, val, e) ==
    LET base == [r EXCEPT !.attempt = 0, !.elapsed = 0, !.last_eval = "none",
                          !.after = "none"]
    IN  IF e = "crawl_website" \/ HasText(val) \/ val = "Cancelled"
          THEN [base EXCEPT !.pc = "done", !.result = val]
          ELSE [base EXCEPT !.pc = "fb_launch"]

\* except Exception (lines 213-217): the last attempt returns None, the
\* others sleep retry_delay
OuterExcept(r, e) ==
    IF FinalAttempt(r.attempt)
      THEN Returned(r, "None", e)
      ELSE [r EXCEPT !.pc = "retry_sleep_outer", !.last_eval = "none",
                     !.after = "none"]

\* a failed attempt starts the next one from inside its with block
InnerExceptRelaunch(r) ==
    IF FinalAttempt(r.attempt)
      THEN [r EXCEPT !.pc = "page_close", !.after = "return_None"]
      ELSE [r EXCEPT !.pc = "launch", !.attempt = @ + 1]

\* except PlaywrightTimeoutError / except Exception (lines 189-200)
InnerExcept(r) ==
    IF FinalAttempt(r.attempt)
      THEN [r EXCEPT !.pc = "page_close", !.after = "return_None"]
      ELSE [r EXCEPT !.pc = "retry_sleep_inner"]

\* line 119: check_memory_safe at the top of each attempt
CwCheck(s) ==
    /\ scan[s].pc = "cw_check"
    /\ \E u \in MemSamples :
         Step(s, [scan[s] EXCEPT
                    !.last_eval = EvalOf(u),
                    !.pc = IF CheckMemorySafe(u) THEN "gbi_check"
                                                 ELSE "cw_wait"])

\* line 72: check_memory_safe in get_browser_instance
GbiCheck(s) ==
    /\ scan[s].pc = "gbi_check"
    /\ \E u \in MemSamples :
         Step(s, [scan[s] EXCEPT
                    !.last_eval = EvalOf(u),
                    !.pc = IF CheckMemorySafe(u) THEN "launch"
                                                 ELSE "gbi_wait"])

\* wait_for_memory (lines 44-52): one evaluation of the while condition
\* (u1) and, when the loop ends, the check of line 51 (u2)
WaitLoop(s) ==
    /\ scan[s].pc \in {"cw_wait", "gbi_wait"}
    /\ \E u1, u2 \in MemSamples :
         LET r == scan[s]
             site == r.pc
         IN  IF WaitLoopCond(u1, r.elapsed)
               THEN Step(s, [r EXCEPT
                               !.pc = IF site = "cw_wait"
                                        THEN "cw_wait_sleep"
                                        ELSE "gbi_wait_sleep",
                               !.last_eval = EvalOf(u1)])
               ELSE Step(s, [r EXCEPT
                               !.elapsed = 0,
                               !.last_eval = EvalOf(u2),
                               !.pc = IF CheckMemorySafe(u2)
                                        THEN (IF site = "cw_wait"
                                                THEN "gbi_check"
                                                ELSE "launch")
                                        ELSE "mem_error"])

\* await asyncio.sleep(2) inside wait_for_memory (line 49)
WaitSleep(s) ==
    /\ scan[s].pc \in {"cw_wait_sleep", "gbi_wait_sleep"}
    /\ Step(s, [scan[s] EXCEPT
                  !.elapsed = Min(@ + PollSleep, timeout),
                  !.last_eval = "none",
                  !.pc = IF @ = "cw_wait_sleep" THEN "cw_wait"
                                                ELSE "gbi_wait"])

\* MemoryError handled like any other exception of the attempt
OnMemoryErrorRetried(r, e) == OuterExcept(r, e)

\* except MemoryError (lines 208-212): force_gc, sleep 5, return None
OnMemoryError(r, e) == Returned(r, "None_mem", e)

\* the MemoryError of wait_for_memory reaches crawl_website
MemError(s) ==
    /\ scan[s].pc = "mem_error"
    /\ \E e \in Entries : Step(s, OnMemoryError(scan[s], e))

\* p.chromium.launch inside get_browser_instance (lines 76-98)
Launch(s, ok) ==
    /\ scan[s].pc = "launch"
    /\ IF ok
         THEN Step(s, [scan[s] EXCEPT !.browser = "live", !.close_calls = 0,
                                      !.launched = @ + 1,
                                      !.pc = "setup"])
         ELSE \E e \in Entries : Step(s, OuterExcept(scan[s], e))

\* new_page, set_viewport_size, set_extra_http_headers (lines 124-135)
Setup(s, ok) ==
    /\ scan[s].pc = "setup"
    /\ Step(s, IF ok THEN [scan[s] EXCEPT !.pc = "goto"]
                     ELSE [scan[s] EXCEPT !.pc = "browser_close",
                                          !.after = "outer_except"])

\* page.goto (lines 144-148)
Goto(s, out) ==
    /\ scan[s].pc = "goto"
    /\ Step(s, IF out = "ok" THEN [scan[s] EXCEPT !.pc = "settle"]
                             ELSE InnerExcept(scan[s]))

\* await asyncio.sleep(2) (line 151)
Settle(s) ==
    /\ scan[s].pc = "settle"
    /\ Step(s, [scan[s] EXCEPT !.pc = "scroll"])

\* the scroll cycle (lines 154-160); whatever it raises is swallowed
Scroll(s) ==
    /\ scan[s].pc = "scroll"
    /\ Step(s, [scan[s] EXCEPT !.pc = "extract"])

\* extraction and assembly of the result (lines 163-187)
Extract(s, out) ==
    /\ scan[s].pc = "extract"
    /\ Step(s, IF out = "error"
                 THEN InnerExcept(scan[s])
                 ELSE [scan[s] EXCEPT
                         !.pc = "page_close",
                         !.after = IF out = "text" THEN "return_page"
                                                   ELSE "return_page_empty"])

\* await asyncio.sleep(retry_delay) inside the `async with` (lines 194, 200)
RetrySleepInner(s) ==
    /\ scan[s].pc = "retry_sleep_inner"
    /\ Step(s, [scan[s] EXCEPT !.pc = "page_close", !.after = "next_attempt"])

\* finally: page.close() (lines 202-206)
PageClose(s) ==
    /\ scan[s].pc = "page_close"
    /\ Step(s, [scan[s] EXCEPT !.pc = "browser_close"])

\* exit of get_browser_instance (lines 102-109)
BrowserClose(s) ==
    /\ scan[s].pc = "browser_close"
    /\ Step(s, IF NeedsClose(scan[s].browser)
                 THEN [scan[s] EXCEPT !.pc = "leave", !.browser = "closed",
                                      !.close_calls = @ + 1,
                                      !.closed = @ + 1]
                 ELSE [scan[s] EXCEPT !.pc = "leave"])

\* what left the `async with self.get_browser_instance()` block goes on
Leave(s) ==
    /\ scan[s].pc = "leave"
    /\ LET r == [scan[s] EXCEPT !.last_eval = "none",
                                !.browser = IF @ = "closed" THEN "none" ELSE @,
                                !.close_calls = 0]
       IN  \E e \in Entries :
             Step(s, CASE r.after = "return_page" -> Returned(r, "page", e)
                       [] r.after = "return_page_empty" ->
                            Returned(r, "page_empty", e)
                       [] r.after = "return_None" -> Returned(r, "None", e)
                       [] r.after = "cancel" -> Returned(r, "Cancelled", e)
                       [] r.after = "outer_except" -> OuterExcept(r, e)
                       [] r.after = "next_attempt" ->
                            [r EXCEPT !.attempt = @ + 1, !.pc = "cw_check",
                                      !.after = "none"])

\* await asyncio.sleep(retry_delay) of the outer handler (line 217)
RetrySleepOuter(s) ==
    /\ scan[s].pc = "retry_sleep_outer"
    /\ Step(s, [scan[s] EXCEPT !.attempt = @ + 1, !.pc = "cw_check"])

----------------------------------------------------------------------------
(* crawl_with_fallback: the degraded pass (lines 350-382) *)

\* crawl_with_fallback returns val (lines 366-382)
FbDone(r, val) ==
    [r EXCEPT !.pc = "done", !.result = val, !.after = "none"]

\* async_playwright() and p.chromium.launch(headless=True) (lines 352-353)
FbLaunch(s, ok) ==
    /\ scan[s].pc = "fb_launch"
    /\ Step(s, IF ok THEN [scan[s] EXCEPT !.fb_browser = "live",
                                          !.pc = "fb_new_page"]
                     ELSE FbDone(scan[s], "None"))

\* browser.new_page() (line 354) is outside the inner try: when it raises,
\* only the exit of the playwright context ends the browser
FbNewPage(s, ok) ==
    /\ scan[s].pc = "fb_new_page"
    /\ Step(s, IF ok THEN [scan[s] EXCEPT !.pc = "fb_goto"]
                     ELSE FbDone([scan[s] EXCEPT !.fb_browser = "none"],
                                 "None"))

\* page.goto(url, timeout=15000) (line 358)
FbGoto(s, ok) ==
    /\ scan[s].pc = "fb_goto"
    /\ Step(s, IF ok THEN [scan[s] EXCEPT !.pc = "fb_extract"]
                     ELSE [scan[s] EXCEPT !.pc = "fb_close",
                                          !.after = "return_None"])

\* the simplified extraction (lines 361-376)
FbExtract(s, out) ==
    /\ scan[s].pc = "fb_extract"
    /\ Step(s, [scan[s] EXCEPT
                  !.pc = "fb_close",
                  !.after = CASE out = "text" -> "return_fallback"
                              [] out = "empty" -> "return_fallback_empty"
                              [] OTHER -> "return_None"])

\* finally: await browser.close() (line 378); when close raises, the exit
\* of the playwright context ends the browser and the handler of line 380
\* returns None
FbClose(s, ok) ==
    /\ scan[s].pc = "fb_close"
    /\ LET r == [scan[s] EXCEPT !.fb_browser = "none"]
       IN  Step(s, IF ~ok THEN FbDone(r, "None")
                   ELSE CASE r.after = "return_fallback" ->
                               FbDone(r, "fallback")
                          [] r.after = "return_fallback_empty" ->
                               FbDone(r, "fallback_empty")
                          [] r.after = "cancel" -> FbDone(r, "Cancelled")
                          [] OTHER -> FbDone(r, "None"))

----------------------------------------------------------------------------
(* Cancellation: task.cancel() raises CancelledError, a BaseException, at   *)
(* the await the scan is suspended in, at any await and any number of       *)
(* times.                                                                   *)

\* awaits of crawl_website outside every try block that has a finally
PlainAwaits == {"cw_wait_sleep", "gbi_wait_sleep", "mem_error",
                "retry_sleep_outer", "launch"}

\* awaits inside the inner try (lines 137-206): its finally closes the page
InnerAwaits == {"goto", "settle", "retry_sleep_inner"}

\* awaits under a bare `except:` (lines 159, 244, 299)
BareExceptAwaits == {"scroll", "extract"}

\* awaits of extraction that only an `except Exception` covers
\* (lines 165, 170, 249, 253, 282)
ExtractAwaits == {"extract"}

\* the frame of a scan cancelled at r.pc
CancelledAt(r, e) ==
    LET c == [r EXCEPT !.cancelled = TRUE]
    IN  CASE r.pc = "sem_wait" -> [c EXCEPT !.pc = "done",
                                            !.result = "Cancelled"]
          [] r.pc \in PlainAwaits -> Returned(c, "Cancelled", e)
          [] r.pc = "setup" -> [c EXCEPT !.pc = "browser_close",
                                         !.after = "cancel"]
          [] r.pc \in InnerAwaits -> [c EXCEPT !.pc = "page_close",
                                               !.after = "cancel"]
          [] r.pc = "page_close" -> [c EXCEPT !.pc = "browser_close",
                                              !.after = "cancel"]
          [] r.pc = "browser_close" -> [c EXCEPT !.after = "cancel"]
          [] r.pc = "scroll" -> [c EXCEPT !.pc = "extract"]
          [] r.pc = "fb_launch" -> FbDone(c, "Cancelled")
          [] r.pc = "fb_new_page" ->
               FbDone([c EXCEPT !.fb_browser = "none"], "Cancelled")
          [] r.pc \in {"fb_goto", "fb_extract", "fb_close"} ->
               [c EXCEPT !.pc = "fb_close", !.after = "cancel"]

\* the awaits where CancelledError has one outcome
CancelPoints == PlainAwaits \cup InnerAwaits \cup
                {"sem_wait", "setup", "page_close", "browser_close", "scroll",
                 "fb_launch", "fb_new_page", "fb_goto", "fb_extract",
                 "fb_close"}

\* task.cancel() reaches scan s at the await it is suspended in. During
\* extraction the CancelledError propagates from the awaits that only
\* `except Exception` covers and is swallowed at those under a bare except
Cancel(s) ==
    \/ /\ scan[s].pc \in CancelPoints \ {"sem_wait"}
       /\ \E e \in Entries : Move(s, CancelledAt(scan[s], e))
    \/ /\ scan[s].pc = "sem_wait"
       /\ scan' = [scan EXCEPT ![s] = CancelledAt(scan[s], "crawl_website")]
       /\ sem_waiters' = RemoveWaiter(sem_waiters, s)
       /\ UNCHANGED <<semaphore, not_crawler>>
    \/ /\ scan[s].pc \in ExtractAwaits
       /\ Move(s, [scan[s] EXCEPT !.cancelled = TRUE, !.pc = "page_close",
                                  !.after = "cancel"])
    \/ /\ scan[s].pc \in BareExceptAwaits \ {"scroll"}
       /\ Move(s, [scan[s] EXCEPT !.cancelled = TRUE])

----------------------------------------------------------------------------

\* the steps scan s takes on its own
ScanStep(s) ==
    \/ SemAcquire(s)
    \/ CwCheck(s)
    \/ GbiCheck(s)
    \/ WaitLoop(s)
    \/ WaitSleep(s)
    \/ MemError(s)
    \/ \E ok \in BOOLEAN : Launch(s, ok)
    \/ \E ok \in BOOLEAN : Setup(s, ok)
    \/ \E out \in {"ok", "timeout", "error"} : Goto(s, out)
    \/ Settle(s)
    \/ Scroll(s)
    \/ \E out \in {"text", "empty", "error"} : Extract(s, out)
    \/ RetrySleepInner(s)
    \/ PageClose(s)
    \/ BrowserClose(s)
    \/ Leave(s)
    \/ RetrySleepOuter(s)
    \/ \E ok \in BOOLEAN : FbLaunch(s, ok)
    \/ \E ok \in BOOLEAN : FbNewPage(s, ok)
    \/ \E ok \in BOOLEAN : FbGoto(s, ok)
    \/ \E out \in {"text", "empty", "error"} : FbExtract(s, out)
    \/ \E ok \in BOOLEAN : FbClose(s, ok)

\* calls, steps and cancellations of the scans
CrawlerNext ==
    \E s \in Scans :
        \/ Call(s)
        \/ ScanStep(s)
        \/ Cancel(s)

----------------------------------------------------------------------------
(* services.memory_manager.MemoryManager *)

\* safe up to the emergency limit
ManagerMemorySafeBelowEmergency(usage) == usage < EmergencyPercent

\* check_memory_safe (lines 39-42)
ManagerMemorySafe(usage) == usage < memory_threshold

\* browsers_to_remove of _cleanup_old_browsers (lines 150-152): the first
\* len // 2 elements of list(self.active_browsers), whose order is that of
\* a set, when more than max_browsers // 2 are active
CleanupSelections(active) ==
    IF Cardinality(active) > max_browsers \div 2
      THEN {sel \in SUBSET active :
                Cardinality(sel) = Cardinality(active) \div 2}
      ELSE {{}}

\* len(self.active_browsers) >= self.max_browsers (line 85)
AtCapacity(active) == Cardinality(active) >= max_browsers

\* get_browser_instance is entered (lines 76-81): the memory check on
\* sample u and, when it fails, wait_for_memory, which holds nothing while
\* it polls; freed is its result. MemoryError when it returns False
Enter(g, u, freed) ==
    /\ getter[g].pc = "idle"
    /\ getter' = [getter EXCEPT ![g].pc =
                    IF ManagerMemorySafe(u) \/ freed THEN "lock"
                                                     ELSE "raised"]
    /\ UNCHANGED <<active_browsers, browser_lock, monitor, not_manager>>

\* async with self.browser_lock (lines 84-91). At capacity
\* _cleanup_old_browsers runs under the lock, and its first
\* _release_browser_instance waits for the lock this task holds.
\* Otherwise the browser is created and added, or the creation raises.
Acquire(g, created) ==
    /\ getter[g].pc = "lock"
    /\ browser_lock = 0
    /\ \E sel \in (IF AtCapacity(active_browsers)
                     THEN CleanupSelections(active_browsers) ELSE {{}}) :
         IF sel # {}
           THEN /\ browser_lock' = g
                /\ getter' = [getter EXCEPT ![g].pc = "lock_again"]
                /\ UNCHANGED active_browsers
           ELSE /\ IF created
                     THEN /\ active_browsers' = active_browsers \cup {g}
                          /\ getter' = [getter EXCEPT ![g] =
                                          [pc |-> "yielded", browser |-> "open"]]
                     ELSE /\ getter' = [getter EXCEPT ![g].pc = "raised"]
                          /\ UNCHANGED active_browsers
                /\ UNCHANGED browser_lock
    /\ UNCHANGED <<monitor, not_manager>>

\* the body of the `async with` ends, normally or not (line 93)
Exit(g) ==
    /\ getter[g].pc = "yielded"
    /\ getter' = [getter EXCEPT ![g].pc = "release"]
    /\ UNCHANGED <<active_browsers, browser_lock, monitor, not_manager>>

\* _release_browser_instance (lines 119-130) under the lock
Released(active, b) == active \ {b}

\* finally: _release_browser_instance(browser) (lines 98-100)
Release(g) ==
    /\ getter[g].pc = "release"
    /\ browser_lock = 0
    /\ active_browsers' = Released(active_browsers, g)
    /\ getter' = [getter EXCEPT ![g] = [pc |-> "done", browser |-> "closed"]]
    /\ UNCHANGED <<browser_lock, monitor, not_manager>>

\* cleanup_browsers (lines 136-146) under the lock: every active browser
\* is closed and the set is cleared
CloseAll(gs, active) ==
    [g \in Getters |-> IF g \in active THEN [gs[g] EXCEPT !.browser = "closed"]
                                       ELSE gs[g]]

\* cleanup_browsers called from outside the monitor (main.py line 52)
CleanupBrowsers ==
    /\ browser_lock = 0
    /\ active_browsers # {}
    /\ getter' = CloseAll(getter, active_browsers)
    /\ active_browsers' = {}
    /\ UNCHANGED <<browser_lock, monitor, not_manager>>

\* the steps of one get_browser_instance call
GetterStep(g) ==
    \/ \E u \in MonitorSamples, freed \in BOOLEAN : Enter(g, u, freed)
    \/ \E created \in BOOLEAN : Acquire(g, created)
    \/ Exit(g)
    \/ Release(g)

----------------------------------------------------------------------------
(* The memory monitoring tasks *)

\* memory_usage > self.memory_threshold (line 166)
NeedsWarning(usage) == usage > memory_threshold

\* emergency handling from the warning threshold on
NeedsEmergencyFromWarning(kind, usage) == usage > memory_threshold

\* memory_usage > 90 (memory_manager.py line 170); memory_usage > 95
\* (main.py line 192)
NeedsEmergency(kind, usage) ==
    IF kind = "manager" THEN usage > EmergencyPercent
                        ELSE usage > MainCleanupPercent

\* the monitoring coroutine is scheduled: main.memory_monitoring_task by
\* the lifespan handler (main.py line 43), _memory_monitoring_task by the
\* owner of the MemoryManager
StartMonitor(k) ==
    /\ monitor.kind = "unstarted"
    /\ monitor' = [monitor EXCEPT !.kind = k]
    /\ UNCHANGED <<active_browsers, browser_lock, getter, not_manager>>

\* the tick is over; the task sleeps until the next sample
EndTick(m) == [m EXCEPT !.pc = "sleep", !.to_release = {}]

\* lines 169-171: the emergency check that follows the warning handling;
\* above the limit the emergency handler is entered, otherwise the tick is
\* over
EmergencyCheck(m) ==
    IF NeedsEmergency(m.kind, m.usage)
      THEN [m EXCEPT !.pc = "sweep", !.emergency = "entered"]
      ELSE EndTick(m)

\* the sample that latches the emergency of the previous tick, as a monitor
\* with hysteresis would keep it
Latched(m) ==
    \/ m.emergency # "no"
    \/ m.latched /\ m.usage >= memory_threshold

\* a tick of MemoryManager._memory_monitoring_task starts (lines 160-171):
\* the sample, _record_memory_usage, then _handle_memory_warning above the
\* threshold (a redis write, force_gc, the selection of
\* _cleanup_old_browsers). redis_client belongs to the environment: each of
\* its calls returns or raises, and a raise ends the tick (line 175)
ManagerSample(u, redis_ok) ==
    /\ monitor.kind = "manager"
    /\ monitor.pc = "sleep"
    /\ LET m == [monitor EXCEPT !.usage = u, !.emergency = "no",
                                !.swept = FALSE, !.latched = Latched(monitor)]
       IN  IF ~redis_ok
             THEN monitor' = EndTick(m)
             ELSE IF NeedsWarning(u)
                    THEN \E sel \in CleanupSelections(active_browsers) :
                           monitor' = IF sel # {}
                                        THEN [m EXCEPT !.pc = "release",
                                                       !.to_release = sel]
                                        ELSE EmergencyCheck(m)
                    ELSE monitor' = EmergencyCheck(m)
    /\ UNCHANGED <<active_browsers, browser_lock, getter, not_manager>>

\* _handle_memory_emergency starts with a redis write (_record_alert, line
\* 263); when it raises, the tick ends before cleanup_browsers
ManagerAlertFails ==
    /\ monitor.kind = "manager"
    /\ monitor.pc = "sweep"
    /\ monitor.emergency = "entered"
    /\ monitor' = EndTick(monitor)
    /\ UNCHANGED <<active_browsers, browser_lock, getter, not_manager>>

\* _cleanup_old_browsers (lines 153-154): one _release_browser_instance
MonitorRelease(b) ==
    /\ monitor.pc = "release"
    /\ b \in monitor.to_release
    /\ browser_lock = 0
    /\ active_browsers' = Released(active_browsers, b)
    /\ getter' = [getter EXCEPT ![b].browser = "closed"]
    /\ monitor' = IF monitor.to_release = {b}
                    THEN EmergencyCheck(monitor)
                    ELSE [monitor EXCEPT !.to_release = @ \ {b}]
    /\ UNCHANGED <<browser_lock, not_manager>>

\* a tick of main.memory_monitoring_task starts (main.py lines 156-169):
\* the alerts swallow their own failures, the cleanup runs above 95
MainSample(u) ==
    /\ monitor.kind = "main"
    /\ monitor.pc = "sleep"
    /\ monitor' = EmergencyCheck([monitor EXCEPT !.usage = u,
                                                 !.emergency = "no",
                                                 !.swept = FALSE,
                                                 !.latched = Latched(monitor)])
    /\ UNCHANGED <<active_browsers, browser_lock, getter, not_manager>>

\* cleanup_browsers of the emergency handler (memory_manager.py line 266,
\* main.py line 207)
MonitorSweep ==
    /\ monitor.pc = "sweep"
    /\ browser_lock = 0
    /\ getter' = CloseAll(getter, active_browsers)
    /\ active_browsers' = {}
    /\ monitor' = [monitor EXCEPT !.pc = "gc_flush"]
    /\ UNCHANGED <<browser_lock, not_manager>>

\* force_gc and redis_client.flushdb() (memory_manager.py lines 267-268,
\* main.py lines 210-213); force_gc ends with a redis write, and when that
\* or flushdb raises the handler ends there
MonitorGcFlush(redis_ok) ==
    /\ monitor.pc = "gc_flush"
    /\ monitor' = IF redis_ok
                    THEN EndTick([monitor EXCEPT
                                    !.emergency = "done",
                                    !.swept = (active_browsers = {})])
                    ELSE EndTick(monitor)
    /\ UNCHANGED <<active_browsers, browser_lock, getter, not_manager>>

\* the steps of the monitoring task
MonitorStep ==
    \/ \E k \in {"manager", "main"} : StartMonitor(k)
    \/ \E u \in MonitorSamples, ok \in BOOLEAN : ManagerSample(u, ok)
    \/ ManagerAlertFails
    \/ \E b \in Getters : MonitorRelease(b)
    \/ \E u \in MonitorSamples : MainSample(u)
    \/ MonitorSweep
    \/ \E ok \in BOOLEAN : MonitorGcFlush(ok)

\* the tasks on one MemoryManager
ManagerNext ==
    \/ \E g \in Getters : GetterStep(g)
    \/ CleanupBrowsers
    \/ MonitorStep

----------------------------------------------------------------------------
(* MemoryManager.get_browser_instance up to the lock (memory_manager.py     *)
(* lines 76-81) with wait_for_memory (lines 59-71)                          *)

\* the pause a tiered guard would keep: set by a sample from 80 up to 90
\* percent, cleared by a sample below 70 percent
Paused(p, u) ==
    IF u >= memory_threshold /\ u < EmergencyPercent THEN TRUE
    ELSE IF u < 70 THEN FALSE
    ELSE p

\* entrant w reads sample u
Read(r, u) == [r EXCEPT !.sample = u, !.paused = Paused(@, u)]

\* line 79: if not await self.check_memory_safe()
AdmCheck(w, u) ==
    /\ entrant[w].pc = "idle"
    /\ LET r == Read(entrant[w], u)
       IN  entrant' = [entrant EXCEPT ![w] =
                         IF ManagerMemorySafe(u)
                           THEN [r EXCEPT !.pc = "admitted",
                                          !.outcome = "admitted"]
                           ELSE [r EXCEPT !.pc = "wm_loop"]]
    /\ UNCHANGED not_admission

\* the loop condition without the time limit
WmLoopCondNoTimeout(usage, el) == ~ManagerMemorySafe(usage)

\* the while condition of wait_for_memory (line 63) after el seconds
WmLoopCond(usage, el) == (~ManagerMemorySafe(usage)) /\ el < timeout

\* lines 63-71 and 80-81: the while test on sample u1; when the loop ends,
\* the check of line 67 on sample u2: True lets the call go on, False makes
\* get_browser_instance raise MemoryError
WmLoop(w, u1, u2) ==
    /\ entrant[w].pc = "wm_loop"
    /\ LET r == entrant[w]
       IN  entrant' = [entrant EXCEPT ![w] =
             IF WmLoopCond(u1, r.elapsed)
               THEN [Read(r, u1) EXCEPT !.pc = "wm_gc", !.rounds = @ + 1]
               ELSE IF ManagerMemorySafe(u2)
                      THEN [Read(Read(r, u1), u2) EXCEPT
                              !.pc = "admitted", !.outcome = "admitted"]
                      ELSE [Read(Read(r, u1), u2) EXCEPT
                              !.pc = "raised", !.outcome = "MemoryError"]]
    /\ UNCHANGED not_admission

\* line 64: await self.force_gc(), which ends with a redis write
\* (_record_memory_event, lines 54-57); what that raises leaves
\* wait_for_memory and get_browser_instance (lines 95-97)
WmGc(w, redis_ok) ==
    /\ entrant[w].pc = "wm_gc"
    /\ entrant' = [entrant EXCEPT ![w] =
                     IF redis_ok
                       THEN [@ EXCEPT !.pc = "wm_sleep", !.gc_calls = @ + 1]
                       ELSE [@ EXCEPT !.pc = "raised", !.gc_calls = @ + 1,
                                      !.outcome = "Exception"]]
    /\ UNCHANGED not_admission

\* line 65: await asyncio.sleep(2)
WmSleep(w) ==
    /\ entrant[w].pc = "wm_sleep"
    /\ entrant' = [entrant EXCEPT ![w].pc = "wm_loop",
                                  ![w].elapsed = Min(@ + PollSleep, timeout)]
    /\ UNCHANGED not_admission

\* the steps of one call
EntrantStep(w) ==
    \/ \E u \in MemSamples : AdmCheck(w, u)
    \/ \E u1, u2 \in MemSamples : WmLoop(w, u1, u2)
    \/ \E ok \in BOOLEAN : WmGc(w, ok)
    \/ WmSleep(w)

\* the calls that are in the admission part
AdmissionNext == \E w \in Entrants : EntrantStep(w)

----------------------------------------------------------------------------
(* ContentCheckerService (content_checker.py) *)

\* a confidence, given in percent; the unit is 1/1200 so that the mean of
\* up to four confidences (line 277) is a whole number
Conf(pct) == 12 * pct

\* `return None` of a provider, in the shape of a provider's result
None ==
    [compliant |-> FALSE, method |-> "None", confidence |-> 0,
     violations |-> <<>>]

\* `if result:` (lines 98, 104, 164) that is asked to let nothing through
TruthyNever(result) == FALSE

\* `if result:` (lines 98, 104, 164): a result dict is true, None is not
Truthy(result) == result # None

\* the categories of self.sensitive_keywords in the order of the dict
Categories == <<"gambling", "porn", "violence", "drugs", "political">>

\* self.sensitive_keywords (lines 22-28): a keyword is the sequence of its
\* characters, a character is written as its code point
sensitive_keywords ==
    [gambling |->
        << <<"u8D4C", "u535A">>, <<"u535A", "u5F69">>, <<"u8D4C", "u573A">>,
           <<"u8001", "u864E", "u673A">>, <<"u767E", "u5BB6", "u4E50">>,
           <<"u8F6E", "u76D8">>, <<"u6251", "u514B">>, <<"u9AB0", "u5B50">>,
           <<"u6295", "u6CE8">>, <<"u5F00", "u5956">> >>,
     porn |->
        << <<"u6210", "u4EBA">>, <<"u8272", "u60C5">>, <<"u60C5", "u8272">>,
           <<"u88F8", "u4F53">>, <<"u6027", "u7231">>,
           <<"u6210", "u4EBA", "u5185", "u5BB9">>,
           <<"u6210", "u4EBA", "u5A31", "u4E50">> >>,
     violence |->
        << <<"u66B4", "u529B">>, <<"u8840", "u8165">>, <<"u6050", "u6016">>,
           <<"u6740", "u4EBA">>, <<"u6B66", "u5668">>,
           <<"u7BA1", "u5236", "u5200", "u5177">>,
           <<"u4EFF", "u771F", "u67AA", "u68B0">> >>,
     drugs |->
        << <<"u6BD2", "u54C1">>, <<"u5927", "u9EBB">>, <<"u51B0", "u6BD2">>,
           <<"u6447", "u5934", "u4E38">>, <<"u53EF", "u5361", "u56E0">>,
           <<"u8FDD", "u7981", "u836F", "u7269">>,
           <<"u79CD", "u690D", "u6280", "u672F">> >>,
     political |->
        << <<"u53CD", "u52A8">>, <<"u98A0", "u8986">>,
           <<"u653F", "u6CBB", "u654F", "u611F">>,
           <<"u975E", "u6CD5", "u7EC4", "u7EC7">>,
           <<"u98A0", "u8986", "u56FD", "u5BB6", "u653F", "u6743">> >>]

\* the pieces the texts handed to the checker are made of: the first
\* character of "du bo" (gambling), then "bo cai" (gambling), "cheng ren"
\* (porn) and "hao" (in no keyword)
Pieces ==
    << <<"u8D4C">>, <<"u535A", "u5F69">>, <<"u6210", "u4EBA">>, <<"u597D">> >>

\* the text made of the pieces chosen by S, in the order of Pieces
RECURSIVE Join(_, _)
Join(S, k) ==
    IF k > Len(Pieces) THEN <<>>
    ELSE (IF k \in S THEN Pieces[k] ELSE <<>>) \o Join(S, k + 1)

\* a text argument that is None instead of a str
NoneText == <<"None">>

\* the str texts handed to _check_text
Texts == {Join(S, 1) : S \in SUBSET (1..Len(Pieces))}

\* the str texts handed to check_content_safety: "hao", "bo cai cheng ren"
\* and "du bo cai"
SafetyTexts == {Join({4}, 1), Join({2, 3}, 1), Join({1, 2}, 1)}

\* `keyword in text` (line 212)
In(keyword, text) ==
    \E k \in 0..(Len(text) - Len(keyword)) :
        SubSeq(text, k + 1, k + Len(keyword)) = keyword

\* an inner loop that tries the first keyword of the category only
FirstHitFirstKeywordOnly(category, text) ==
    IF In(sensitive_keywords[category][1], text) THEN 1 ELSE 0

\* the inner loop of _local_text_check (lines 211-218): the index of the
\* first keyword of the category found in the text, 0 when there is none
FirstHit(category, text) ==
    LET ks == sensitive_keywords[category]
        hits == {k \in 1..Len(ks) : In(ks[k], text)}
    IN  IF hits = {} THEN 0
        ELSE CHOOSE k \in hits : \A j \in hits : k <= j

\* detected_violations of _local_text_check (lines 207-218)
DetectedViolations(text) ==
    LET Hit(c) == FirstHit(c, text) # 0
        cats == SelectSeq(Categories, Hit)
    IN  [k \in 1..Len(cats) |->
            [type |-> cats[k],
             match |-> sensitive_keywords[cats[k]][FirstHit(cats[k], text)],
             confidence |-> Conf(80)]]

\* a local check that gives no verdict
LocalTextCheckFails(text) == None

\* _local_text_check (lines 205-234)
LocalTextCheck(text) ==
    LET detected == DetectedViolations(text)
    IN  IF detected # <<>>
        THEN [compliant |-> FALSE, method |-> "local_detection",
              confidence |-> Conf(70), violations |-> detected]
        ELSE [compliant |-> TRUE, method |-> "local_detection",
              confidence |-> Conf(60), violations |-> <<>>]

\* what a request to the Baidu API gave: an exception (timeout, connection
\* error), an answer without "conclusion" (or a status other than 200), or
\* the conclusion "he gui" (compliant) or "bu he gui" (not compliant)
Responses == {"exception", "no_conclusion", "hegui", "buhegui"}

\* conclusion in ["he gui", "yi si", "shen he zhong"] (lines 129, 189)
CompliantConclusions == {"hegui", "yisi", "shenhezhong"}

\* the value of _check_text_baidu / _check_image_baidu on a response
\* (lines 122-143, 182-203)
BaiduResult(resp) ==
    IF resp \in {"exception", "no_conclusion"} THEN None
    ELSE [compliant |-> resp \in CompliantConclusions,
          method |-> "baidu_ai",
          confidence |-> Conf(90),
          violations |->
            IF resp \in CompliantConclusions THEN <<>>
            ELSE <<[type |-> "baidu_detected", match |-> <<>>,
                    confidence |-> Conf(90)]>>]

\* suspicious_patterns of _local_image_check (lines 239-242)
suspicious_patterns ==
    <<"gambling", "porn", "violence", "drugs", "weapon",
      "adult", "sex", "nude", "blood", "gun">>

\* the image URLs handed to the checker, each as the sequence of its parts:
\* https://site/logo.png, https://site/gun.png and img/logo.png
ImageUrls ==
    {<<"http", "s://site/", "logo", ".png">>,
     <<"http", "s://site/", "gun", ".png">>,
     <<"img/", "logo", ".png">>}

\* img_url.startswith("http") (line 67)
StartsWithHttp(url) == url[1] = "http"

\* re.search(pattern, image_url, re.IGNORECASE) (line 246)
Search(pattern, url) == \E k \in 1..Len(url) : url[k] = pattern

\* _local_image_check (lines 236-267)
LocalImageCheck(url) ==
    LET Found(p) == Search(p, url)
        pats == SelectSeq(suspicious_patterns, Found)
        detected == [k \in 1..Len(pats) |->
                        [type |-> "suspicious_url", match |-> <<pats[k]>>,
                         confidence |-> Conf(60)]]
    IN  IF detected # <<>>
        THEN [compliant |-> FALSE, method |-> "local_detection",
              confidence |-> Conf(60), violations |-> detected]
        ELSE [compliant |-> TRUE, method |-> "local_detection",
              confidence |-> Conf(50), violations |-> <<>>]

\* the image lists handed to the checker
ImageLists == UNION {[1..n -> ImageUrls] : n \in 0..NumImages}

RECURSIVE Sum(_)
\* sum(confidences) (line 277)
Sum(cs) == IF cs = <<>> THEN 0 ELSE Head(cs) + Sum(Tail(cs))

\* the confidence of the text verdict alone
TextConfidenceOnly(text_result, image_results) == text_result.confidence

\* _calculate_confidence (lines 269-277)
CalculateConfidence(text_result, image_results) ==
    LET confidences ==
            <<text_result.confidence>>
            \o [k \in 1..Len(image_results) |-> image_results[k].confidence]
    IN  Sum(confidences) \div Len(confidences)

\* a verdict that looks at the text alone
IsCompliantTextOnly(text_result, image_results) == text_result.compliant

\* is_compliant (lines 72-75; scan_service.py lines 29-32)
IsCompliant(text_result, image_results) ==
    /\ text_result.compliant
    /\ \A k \in 1..Len(image_results) : image_results[k].compliant

\* the result dict before anything is put into it
NoResult ==
    [compliant |-> FALSE, text_result |-> None, image_results |-> <<>>,
     overall_confidence |-> 0, detection_method |-> "None"]

\* _create_fallback_result (lines 279-288)
CreateFallbackResult ==
    [compliant |-> FALSE,
     text_result |-> [compliant |-> FALSE, method |-> "fallback",
                      confidence |-> 0, violations |-> <<>>],
     image_results |-> <<>>,
     overall_confidence |-> Conf(30),
     detection_method |-> "fallback"]

NewCheck ==
    [pc |-> "idle", entry |-> "none", text |-> <<>>, images |-> <<>>,
     token |-> FALSE, key |-> FALSE, calls |-> <<>>, answers |-> <<>>,
     text_result |-> None,
     image_results |-> <<>>, i |-> 1, result |-> NoResult]

ContentInit == check = NewCheck

\* a call of check_content_safety (line 48), up to the call of _check_text
CheckContentSafety(text, images, token, key) ==
    /\ check.pc = "idle"
    /\ check' = [check EXCEPT !.pc = "baidu",
                              !.entry = "check_content_safety",
                              !.text = text, !.images = images,
                              !.token = token, !.key = key]
    /\ UNCHANGED not_content

\* a call of _check_text (line 93) from outside check_content_safety
CheckText(text, token, key) ==
    /\ check.pc = "idle"
    /\ check' = [check EXCEPT !.pc = "baidu", !.entry = "_check_text",
                              !.text = text, !.token = token, !.key = key]
    /\ UNCHANGED not_content

\* where _check_text returns to
AfterText(c) == IF c.entry = "_check_text" THEN "done" ELSE "images"

\* where an exception of _check_text goes: the except clause of
\* check_content_safety (line 89) or the caller
AfterRaise(c) ==
    IF c.entry = "check_content_safety" THEN "except" ELSE "raised"

\* _check_text lines 96-99: the Baidu API is asked if there is a token; a
\* text that is None fails at text[:1000] (line 119) inside the try
CheckTextBaidu(resp) ==
    /\ check.pc = "baidu"
    /\ IF check.token
       THEN LET result == IF check.text = NoneText THEN None
                          ELSE BaiduResult(resp)
            IN  IF Truthy(result)
                THEN check' = [check EXCEPT
                        !.calls = Append(@, "baidu_ai"),
                        !.answers = Append(@, result),
                        !.text_result = result,
                        !.pc = AfterText(check)]
                ELSE check' = [check EXCEPT
                        !.calls = Append(@, "baidu_ai"),
                        !.answers = Append(@, result),
                        !.pc = "aliyun"]
       ELSE check' = [check EXCEPT !.pc = "aliyun"]
    /\ UNCHANGED not_content

\* _check_text lines 102-105: _check_text_aliyun returns None (line 153)
CheckTextAliyun ==
    /\ check.pc = "aliyun"
    /\ IF check.key
       THEN LET result == None
            IN  IF Truthy(result)
                THEN check' = [check EXCEPT
                        !.calls = Append(@, "aliyun"),
                        !.answers = Append(@, result),
                        !.text_result = result,
                        !.pc = AfterText(check)]
                ELSE check' = [check EXCEPT
                        !.calls = Append(@, "aliyun"),
                        !.answers = Append(@, result),
                        !.pc = "local"]
       ELSE check' = [check EXCEPT !.pc = "local"]
    /\ UNCHANGED not_content

\* _check_text line 108; `keyword in text` raises TypeError on None
CheckTextLocal ==
    /\ check.pc = "local"
    /\ IF check.text = NoneText
       THEN check' = [check EXCEPT
                !.calls = Append(@, "local_detection"),
                !.answers = Append(@, None),
                !.pc = AfterRaise(check)]
       ELSE check' = [check EXCEPT
                !.calls = Append(@, "local_detection"),
                !.answers = Append(@, LocalTextCheck(check.text)),
                !.text_result = LocalTextCheck(check.text),
                !.pc = AfterText(check)]
    /\ UNCHANGED not_content

\* images[:3] (line 66)
Classified(c) == SubSeq(c.images, 1, Min(Len(c.images), MaxClassified))

\* _check_image (lines 159-168) on a response of the Baidu API
ImageResult(c, url, resp) ==
    IF c.token /\ Truthy(BaiduResult(resp)) THEN BaiduResult(resp)
    ELSE LocalImageCheck(url)

\* one round of the loop over the images (lines 66-69)
CheckImage(resp) ==
    /\ check.pc = "images"
    /\ check.i <= Len(Classified(check))
    /\ LET url == Classified(check)[check.i]
       IN  IF StartsWithHttp(url)
           THEN check' = [check EXCEPT
                    !.image_results =
                        Append(@, ImageResult(check, url, resp)),
                    !.i = @ + 1]
           ELSE check' = [check EXCEPT !.i = @ + 1]
    /\ UNCHANGED not_content

\* lines 72-87: the verdict and the result dict
Summarise ==
    /\ check.pc = "images"
    /\ check.i > Len(Classified(check))
    /\ check' = [check EXCEPT
            !.pc = "done",
            !.result =
                [compliant |->
                    IsCompliant(check.text_result, check.image_results),
                 text_result |-> check.text_result,
                 image_results |-> check.image_results,
                 overall_confidence |->
                    CalculateConfidence(check.text_result,
                                        check.image_results),
                 detection_method |-> "multi_api_with_fallback"]]
    /\ UNCHANGED not_content

\* lines 89-91: the except clause of check_content_safety
Fallback ==
    /\ check.pc = "except"
    /\ check' = [check EXCEPT !.pc = "done",
                              !.result = CreateFallbackResult]
    /\ UNCHANGED not_content

ContentNext ==
    \/ \E text \in SafetyTexts \cup {NoneText}, images \in ImageLists,
          token \in BOOLEAN, key \in BOOLEAN :
            CheckContentSafety(text, images, token, key)
    \/ \E text \in Texts \cup {NoneText}, token \in BOOLEAN,
          key \in BOOLEAN :
            CheckText(text, token, key)
    \/ \E resp \in Responses : CheckTextBaidu(resp)
    \/ CheckTextAliyun
    \/ CheckTextLocal
    \/ \E resp \in Responses : CheckImage(resp)
    \/ Summarise
    \/ Fallback

----------------------------------------------------------------------------
(* AlertIntegration (alert_integration.py) *)

\* the violation types of the scan results, each as the sequence of its
\* parts: "gambling" and "illegal_content"
ViolationTypes == {<<"gambling">>, <<"illegal", "_content">>}

\* the confidences of the violations, in percent
Confidences == {50, 70, 80, 90}

\* the violations a scan result can hold
Violations == [type : ViolationTypes, confidence : Confidences]

\* scan_result.get("violations", [])
ViolationLists == UNION {[1..n -> Violations] : n \in 0..MaxViolations}

\* `"illegal" in violation_type` (line 131)
HasWord(word, type) == \E k \in 1..Len(type) : type[k] = word

\* _determine_severity (lines 125-140)
DetermineSeverity(violation) ==
    IF HasWord("illegal", violation.type)
       \/ HasWord("criminal", violation.type)
    THEN "critical"
    ELSE IF violation.confidence >= 90 THEN "critical"
    ELSE IF violation.confidence >= 80 THEN "high"
    ELSE IF violation.confidence >= 70 THEN "medium"
    ELSE "low"

\* max(violations, key=lambda x: x.get("confidence", 0)) (line 80): the
\* first violation of the greatest confidence
HighestConfidence(violations) ==
    LET k == CHOOSE k \in 1..Len(violations) :
                /\ \A j \in 1..Len(violations) :
                        violations[j].confidence <= violations[k].confidence
                /\ \A j \in 1..(k - 1) :
                        violations[j].confidence < violations[k].confidence
    IN  violations[k]

\* _should_create_alert (lines 62-75)
ShouldCreateAlert(violations) ==
    \E k \in 1..Len(violations) :
        violations[k].confidence >= alert_threshold

\* _determine_priority (lines 142-151)
DeterminePriority(severity) ==
    CASE severity = "critical" -> 1
      [] severity = "high" -> 2
      [] severity = "medium" -> 3
      [] OTHER -> 4

\* _create_alert (lines 174-181): the response of the alert client, None
\* when the client raises
CreateAlertResultAsIs(outcome) == outcome

CreateAlertResult(outcome) ==
    IF outcome = "raises" THEN "None" ELSE outcome

\* lines 51-60: a truthy response is returned, anything else ends in
\* `return None`
ReturnedAlert(response) ==
    IF response = "created" THEN response ELSE "None"

NewAlert ==
    [pc |-> "idle", enabled |-> TRUE, compliant |-> TRUE,
     violations |-> <<>>, severity |-> "none",
     priority |-> 0, outcome |-> "none", response |-> "none",
     returned |-> "none"]

AlertInit == alert = NewAlert

\* process_scan_result (lines 39-47) up to the decision to create an
\* alert; the verdict of the scan result is not read
ProcessScanResult(enabled, compliant, violations) ==
    /\ alert.pc = "idle"
    /\ alert' =
        IF enabled /\ ShouldCreateAlert(violations)
          THEN [alert EXCEPT
                  !.enabled = enabled, !.compliant = compliant,
                  !.violations = violations, !.pc = "build"]
          ELSE [alert EXCEPT
                  !.enabled = enabled, !.compliant = compliant,
                  !.violations = violations, !.pc = "done",
                  !.returned = "None"]
    /\ UNCHANGED not_alert

\* _build_alert_data (lines 77-123)
BuildAlertData ==
    /\ alert.pc = "build"
    /\ LET severity ==
                DetermineSeverity(HighestConfidence(alert.violations))
       IN  alert' = [alert EXCEPT
                !.severity = severity,
                !.priority = DeterminePriority(severity),
                !.pc = "create"]
    /\ UNCHANGED not_alert

\* await self._create_alert(alert_data) and the return (lines 49-60,
\* 174-181)
CreateAlert(outcome) ==
    /\ alert.pc = "create"
    /\ alert' = [alert EXCEPT
            !.outcome = outcome,
            !.response = CreateAlertResult(outcome),
            !.returned = ReturnedAlert(CreateAlertResult(outcome)),
            !.pc = "done"]
    /\ UNCHANGED not_alert

AlertNext ==
    \/ \E enabled \in BOOLEAN, compliant \in BOOLEAN,
          violations \in ViolationLists :
            ProcessScanResult(enabled, compliant, violations)
    \/ BuildAlertData
    \/ \E outcome \in {"created", "None", "raises"} : CreateAlert(outcome)

----------------------------------------------------------------------------
(* The page content built by crawl_website and crawl_with_fallback *)

\* len(s[:n]) for a string or a list of length len
Slice(len, n) == Min(len, n)

\* a page as the crawler meets it: the length of the text that
\* _extract_text_content_async returns (0 when it finds nothing or fails),
\* the length of page.inner_text("body") and the number of image URLs that
\* _extract_images_async returns
TextLengths == {0, 800, 5000, 9000, 10000, 10001, 20000}

ImageCounts == {0, 4, 5, 6, 12}

NewPage ==
    [pc |-> "idle", path |-> "none", goto_timeout |-> 0,
     extracted |-> 0, body |-> 0,
     found |-> 0, text_content |-> 0, image_urls |-> 0,
     text |-> 0, images |-> 0]

PageInit == page = NewPage

\* crawl_website lines 144-164: the page is loaded, the text and the images
\* are extracted
CrawlExtract(extracted, body, found) ==
    /\ page.pc = "idle"
    /\ page' = [page EXCEPT
            !.pc = "extracted", !.path = "crawl_website",
            !.goto_timeout = BROWSER_TIMEOUT,
            !.extracted = extracted, !.body = body, !.found = found,
            !.text_content = extracted, !.image_urls = found]
    /\ UNCHANGED not_page

\* crawl_website lines 167-187: the content is checked, cut and returned
CrawlResult ==
    /\ page.pc = "extracted"
    /\ page.path = "crawl_website"
    /\ LET text_content ==
                IF page.text_content = 0
                THEN Slice(page.body, BodyTextCap)
                ELSE page.text_content
           image_urls == Slice(page.image_urls, max_images)
       IN  page' = [page EXCEPT
                !.pc = "returned",
                !.text_content = text_content,
                !.image_urls = image_urls,
                !.text = Slice(text_content, TextCap),
                !.images = image_urls]
    /\ UNCHANGED not_page

\* crawl_with_fallback lines 358-361: the page is loaded and the text is
\* extracted
FallbackExtract(extracted, body) ==
    /\ page.pc = "idle"
    /\ page' = [page EXCEPT
            !.pc = "extracted", !.path = "crawl_with_fallback",
            !.goto_timeout = FallbackGotoTimeout,
            !.extracted = extracted, !.body = body,
            !.text_content = extracted]
    /\ UNCHANGED not_page

\* crawl_with_fallback lines 362-372: the content is returned
FallbackResult ==
    /\ page.pc = "extracted"
    /\ page.path = "crawl_with_fallback"
    /\ LET text_content ==
                IF page.text_content = 0
                THEN Slice(page.body, FallbackBodyTextCap)
                ELSE page.text_content
       IN  page' = [page EXCEPT
                !.pc = "returned",
                !.text_content = text_content,
                !.text = text_content,
                !.images = 0]
    /\ UNCHANGED not_page

PageNext ==
    \/ \E extracted \in TextLengths, body \in TextLengths,
          found \in ImageCounts :
            CrawlExtract(extracted, body, found)
    \/ CrawlResult
    \/ \E extracted \in TextLengths, body \in TextLengths :
            FallbackExtract(extracted, body)
    \/ FallbackResult

----------------------------------------------------------------------------
(* The retry loop of crawl_website under the default settings *)

\* what a failed attempt raised: PlaywrightTimeoutError or another
\* exception inside the page (lines 189-200), or an exception outside it
\* (lines 213-217)
Failures == {"timeout", "error", "launch"}

\* the delay before the attempt that follows attempt number a:
\* self.crawler_config["retry_delay"] (lines 194, 200, 217)
RetryDelay(a) == CRAWLER_RETRY_DELAY

NewRetry ==
    [pc |-> "attempt", attempt |-> 0, failures |-> <<>>, delays |-> <<>>,
     result |-> "pending"]

RetryInit == retry = NewRetry

\* an attempt raises: the last one returns None, the others go to the delay
AttemptFails(failure) ==
    /\ retry.pc = "attempt"
    /\ retry' = IF retry.attempt = CRAWLER_RETRY_TIMES
                  THEN [retry EXCEPT !.pc = "done", !.result = "None",
                                     !.failures = Append(@, failure)]
                  ELSE [retry EXCEPT !.pc = "sleep",
                                     !.failures = Append(@, failure)]
    /\ UNCHANGED not_retry

\* an attempt returns the page (line 187), or wait_for_memory raises
\* MemoryError and the call returns None (lines 208-212)
AttemptEnds(result) ==
    /\ retry.pc = "attempt"
    /\ retry' = [retry EXCEPT !.pc = "done", !.result = result]
    /\ UNCHANGED not_retry

\* await asyncio.sleep(retry_delay), then the next round of the loop
RetrySleep ==
    /\ retry.pc = "sleep"
    /\ retry' = [retry EXCEPT !.pc = "attempt",
                              !.delays = Append(@, RetryDelay(retry.attempt)),
                              !.attempt = @ + 1]
    /\ UNCHANGED not_retry

RetryNext ==
    \/ \E failure \in Failures : AttemptFails(failure)
    \/ \E result \in {"page", "None"} : AttemptEnds(result)
    \/ RetrySleep

----------------------------------------------------------------------------
(* AsyncCrawlerService._extract_text_content_async (lines 221-277) *)

\* selectors (lines 225-233)
selectors ==
    <<"body", "main", "article", "div[role='main']", ".content", "#content",
      ".main-content">>

\* the names in selectors
SelectorSet == {selectors[k] : k \in 1..Len(selectors)}

\* the pages: an element with text, or one that is absent or without text,
\* for each selector
Pages == [SelectorSet -> {"text", "empty"}]

NewExt ==
    [pc |-> "idle", yields |-> [c \in SelectorSet |-> "empty"],
     walk |-> "empty", i |-> 1, text_content |-> "", result |-> ""]

ExtractInit == ext = NewExt

\* the call (line 221), up to the loop
ExtractTextContent(yields, walk) ==
    /\ ext.pc = "idle"
    /\ ext' = [ext EXCEPT !.pc = "loop", !.yields = yields, !.walk = walk]
    /\ UNCHANGED not_extract

\* one round of the loop (lines 236-246): the first selector whose element
\* has text ends it
TrySelector ==
    /\ ext.pc = "loop"
    /\ ext.i <= Len(selectors)
    /\ ext' = IF ext.yields[selectors[ext.i]] = "text"
                THEN [ext EXCEPT !.text_content = selectors[ext.i],
                                 !.pc = "strip"]
                ELSE [ext EXCEPT !.i = @ + 1]
    /\ UNCHANGED not_extract

\* lines 249-250: no selector gave text, the text of the body is read
BodyInnerText ==
    /\ ext.pc = "loop"
    /\ ext.i > Len(selectors)
    /\ ext' = IF ext.yields["body"] = "text"
                THEN [ext EXCEPT !.text_content = "body", !.pc = "strip"]
                ELSE [ext EXCEPT !.pc = "walk"]
    /\ UNCHANGED not_extract

\* lines 253-271: the walk over the visible text nodes
VisibleTextWalk ==
    /\ ext.pc = "walk"
    /\ ext' = [ext EXCEPT
            !.text_content = IF ext.walk = "text" THEN "walk" ELSE "",
            !.pc = "strip"]
    /\ UNCHANGED not_extract

\* return text_content.strip() (line 273)
ExtractReturn ==
    /\ ext.pc = "strip"
    /\ ext' = [ext EXCEPT !.result = ext.text_content, !.pc = "returned"]
    /\ UNCHANGED not_extract

ExtractNext ==
    \/ \E yields \in Pages, walk \in {"text", "empty"} :
            ExtractTextContent(yields, walk)
    \/ TrySelector
    \/ BodyInnerText
    \/ VisibleTextWalk
    \/ ExtractReturn

----------------------------------------------------------------------------
(* ScanService.check_compliance (scan_service.py lines 13-44) with the     *)
(* crawl it runs, CrawlerService.crawl_website (crawler.py lines 392-394)  *)

\* the targets: the empty one and a domain
Domains == {"", "example.com"}

\* the texts of a crawled page: empty or not
PageTexts == {"", "text"}

\* None, as returned by crawl_website
NoData == [found |-> FALSE, text |-> "", images |-> 0]

\* the result dict of crawl_website (crawler.py lines 176-184)
WebsiteData(text, images) == [found |-> TRUE, text |-> text, images |-> images]

\* no result yet
NoVerdict == [status |-> "none", message |-> "none", compliant |-> FALSE]

\* {"status": "error", "message": ...} (scan_service.py line 17); the
\* message is the Chinese for "crawl failed"
CrawlFailed ==
    [status |-> "error", message |-> "u722C u53D6 u5931 u8D25",
     compliant |-> FALSE]

\* the result dict (scan_service.py lines 34-40)
Verdict(is_compliant) ==
    [status |-> "result", message |-> "none", compliant |-> is_compliant]

\* the URL check of crawl_website (crawler.py line 140): page.goto of
\* "https://" alone is refused, any other URL may load
Navigable(domain) == domain # ""

NewJob ==
    [pc |-> "idle", domain |-> "", attempt |-> 0, website_data |-> NoData,
     text_ok |-> FALSE, images_ok |-> TRUE, i |-> 0, result |-> NoVerdict,
     acquired |-> FALSE, launched |-> FALSE, navigated |-> FALSE,
     classified |-> FALSE, cause |-> "none",
     admission_results |-> {}, navigation_results |-> {}]

ServiceInit == job = NewJob

\* the call (scan_service.py lines 13-15, crawler.py lines 392-394)
CheckCompliance(domain) ==
    /\ job.pc \in {"idle", "returned", "raised"}
    /\ job' = [NewJob EXCEPT
            !.pc = "acquire", !.domain = domain,
            !.admission_results = job.admission_results,
            !.navigation_results = job.navigation_results]
    /\ UNCHANGED not_service

\* async with self.semaphore (crawler.py line 115)
JobAcquire ==
    /\ job.pc = "acquire"
    /\ job' = [job EXCEPT !.pc = "memory", !.acquired = TRUE]
    /\ UNCHANGED not_service

\* crawler.py lines 119-123 and 208-212: the memory check, the wait and
\* the entry of get_browser_instance, any of which may end in MemoryError
JobAdmission(admitted) ==
    /\ job.pc = "memory"
    /\ job' = IF admitted
                THEN [job EXCEPT !.pc = "launch"]
                ELSE [job EXCEPT !.pc = "after_crawl",
                                 !.website_data = NoData,
                                 !.cause = "admission"]
    /\ UNCHANGED not_service

\* crawler.py lines 123-136: the browser and the page
JobLaunch ==
    /\ job.pc = "launch"
    /\ job' = [job EXCEPT !.pc = "goto", !.launched = TRUE]
    /\ UNCHANGED not_service

\* crawler.py lines 138-148 and 188-200: page.goto; a failure on the last
\* attempt returns None, an earlier one starts the next attempt
JobGoto(loaded) ==
    /\ job.pc = "goto"
    /\ loaded => Navigable(job.domain)
    /\ job' = IF loaded
                THEN [job EXCEPT !.pc = "extract", !.navigated = TRUE]
                ELSE IF FinalAttempt(job.attempt)
                THEN [job EXCEPT !.pc = "after_crawl", !.navigated = TRUE,
                                 !.website_data = NoData,
                                 !.cause = "navigation"]
                ELSE [job EXCEPT !.pc = "memory", !.navigated = TRUE,
                                 !.attempt = @ + 1]
    /\ UNCHANGED not_service

\* crawler.py lines 162-187: the extraction and the result dict; the text
\* is empty when the extraction and the body both gave nothing
JobExtract(text, images) ==
    /\ job.pc = "extract"
    /\ job' = [job EXCEPT !.pc = "after_crawl",
                          !.website_data = WebsiteData(text, images)]
    /\ UNCHANGED not_service

\* scan_service.py lines 16-17: if not website_data
JobAfterCrawl ==
    /\ job.pc = "after_crawl"
    /\ job' = IF ~job.website_data.found
                THEN [job EXCEPT
                        !.pc = "returned", !.result = CrawlFailed,
                        !.admission_results =
                            IF job.cause = "admission"
                              THEN @ \cup {CrawlFailed} ELSE @,
                        !.navigation_results =
                            IF job.cause = "navigation"
                              THEN @ \cup {CrawlFailed} ELSE @]
                ELSE [job EXCEPT !.pc = "check_text"]
    /\ UNCHANGED not_service

\* scan_service.py line 20: _check_text(website_data["text"]); the verdict
\* is the provider's or the local one
JobCheckText(compliant) ==
    /\ job.pc = "check_text"
    /\ job' = [job EXCEPT !.pc = "check_image", !.classified = TRUE,
                          !.text_ok = compliant]
    /\ UNCHANGED not_service

\* scan_service.py lines 23-26: one round of the loop over the images
JobCheckImage(compliant) ==
    /\ job.pc = "check_image"
    /\ job.i < job.website_data.images
    /\ job' = [job EXCEPT !.i = @ + 1, !.classified = TRUE,
                          !.images_ok = @ /\ compliant]
    /\ UNCHANGED not_service

\* scan_service.py lines 29-44: the summary, insert_one and the return;
\* an error of insert_one leaves check_compliance as an exception
JobSummarise(stored) ==
    /\ job.pc = "check_image"
    /\ job.i = job.website_data.images
    /\ job' = IF stored
                THEN [job EXCEPT
                        !.pc = "returned",
                        !.result = Verdict(job.text_ok /\ job.images_ok)]
                ELSE [job EXCEPT !.pc = "raised"]
    /\ UNCHANGED not_service

ServiceNext ==
    \/ \E domain \in Domains : CheckCompliance(domain)
    \/ JobAcquire
    \/ \E admitted \in BOOLEAN : JobAdmission(admitted)
    \/ JobLaunch
    \/ \E loaded \in BOOLEAN : JobGoto(loaded)
    \/ \E text \in PageTexts, images \in 0..MaxJobImages :
            JobExtract(text, images)
    \/ JobAfterCrawl
    \/ \E compliant \in BOOLEAN : JobCheckText(compliant)
    \/ \E compliant \in BOOLEAN : JobCheckImage(compliant)
    \/ \E stored \in BOOLEAN : JobSummarise(stored)

----------------------------------------------------------------------------
(* cache_result (database.py lines 163-192) and init_redis (lines 70-88)   *)

\* the wrapped functions: a plain one and a coroutine function such as
\* crawl_website (crawler.py lines 111-113)
Kinds == {"sync", "async"}

\* the arguments of the calls
Args == {"a", "b"}

\* cache_key (line 172): one key for each function and arguments
Keys == Kinds \X Args

\* the values a wrapped function returns
Values == {"None", "dict"}

\* json.dumps (line 185): a coroutine object is not serialisable
Serialisable(value) == value # "coroutine"

\* json.dumps of a serialisable value
Dumps(value) == IF value = "None" THEN "null" ELSE "{}"

\* json.loads (line 178)
Loads(text) == IF text = "null" THEN "None" ELSE "dict"

\* a key that is absent
NoEntry == [json |-> "", left |-> 0]

NewCache ==
    [pc |-> "start", redis_client |-> "None", kind |-> "sync", args |-> "a",
     result |-> "None", store |-> [k \in Keys |-> NoEntry],
     executed |-> FALSE, read_error |-> FALSE, backend_error |-> FALSE,
     age |-> [k \in Keys |-> CacheTtl]]

CacheInit == cache = NewCache

\* the key of the call in progress
Key == <<cache.kind, cache.args>>

\* the end of a call: the time since the last completed call starts anew
\* when the call ran the wrapped function, used the backend and the
\* backend raised nothing
Completed(c) ==
    [c EXCEPT !.pc = "returned",
              !.age[Key] = IF /\ c.executed
                              /\ c.redis_client = "client"
                              /\ ~c.backend_error
                             THEN 0 ELSE @]

\* init_redis (lines 70-88): redis_client stays None only when from_url
\* raises; a failed ping leaves the client in place
InitRedis(client) ==
    /\ cache.pc = "start"
    /\ cache' = [cache EXCEPT !.pc = "idle", !.redis_client = client]
    /\ UNCHANGED not_cache

\* wrapper, lines 167-169: the call, and the test of redis_client
CachedCall(kind, args) ==
    /\ cache.pc \in {"idle", "returned", "raised"}
    /\ cache' = [cache EXCEPT
            !.pc = IF cache.redis_client = "None" THEN "call" ELSE "get",
            !.kind = kind, !.args = args, !.result = "None",
            !.executed = FALSE, !.read_error = FALSE,
            !.backend_error = FALSE]
    /\ UNCHANGED not_cache

\* lines 175-178: redis_client.get, outside any try; a hit returns
\* json.loads of the text, which a caller of a coroutine function awaits
CacheGet(answer) ==
    /\ cache.pc = "get"
    /\ cache' =
        IF answer = "error"
          THEN [cache EXCEPT !.pc = "raised", !.read_error = TRUE,
                             !.backend_error = TRUE]
        ELSE IF cache.store[Key] # NoEntry
          THEN IF cache.kind = "async"
                 THEN [cache EXCEPT !.pc = "await",
                                    !.result = Loads(cache.store[Key].json)]
                 ELSE Completed([cache EXCEPT
                                    !.result = Loads(cache.store[Key].json)])
        ELSE [cache EXCEPT !.pc = "call"]
    /\ UNCHANGED not_cache

\* lines 169 and 181: func(*args, **kwargs); a coroutine function returns
\* a coroutine object without running its body
CacheCall(value) ==
    /\ cache.pc = "call"
    /\ LET called ==
            IF cache.kind = "async"
              THEN [cache EXCEPT !.result = "coroutine"]
              ELSE [cache EXCEPT !.result = value, !.executed = TRUE]
       IN  cache' =
            IF cache.redis_client # "None"
              THEN [called EXCEPT !.pc = "store"]
            ELSE IF cache.kind = "async"
              THEN [called EXCEPT !.pc = "await"]
            ELSE Completed(called)
    /\ UNCHANGED not_cache

\* lines 184-190: json.dumps and setex inside the try, then the return
CacheStore(answer) ==
    /\ cache.pc = "store"
    /\ LET stored ==
            IF Serialisable(cache.result) /\ answer = "ok"
              THEN [cache EXCEPT
                      !.store[Key] =
                          [json |-> Dumps(cache.result), left |-> CacheTtl]]
            ELSE IF Serialisable(cache.result)
              THEN [cache EXCEPT !.backend_error = TRUE]
            ELSE cache
       IN  cache' =
            IF cache.kind = "async"
              THEN [stored EXCEPT !.pc = "await"]
              ELSE Completed(stored)
    /\ UNCHANGED not_cache

\* the caller's await of what wrapper returned: the body of the coroutine
\* runs now; a value that is no coroutine cannot be awaited
CacheAwait(value) ==
    /\ cache.pc = "await"
    /\ cache' =
        IF cache.result = "coroutine"
          THEN Completed([cache EXCEPT !.result = value, !.executed = TRUE])
          ELSE [cache EXCEPT !.pc = "raised"]
    /\ UNCHANGED not_cache

\* the passing of time between two calls: the keys set by setex (line 185)
\* run out
CacheTick ==
    /\ cache.pc \in {"idle", "returned", "raised"}
    /\ cache' = [cache EXCEPT
            !.store = [k \in Keys |->
                IF cache.store[k].left <= 1 THEN NoEntry
                ELSE [cache.store[k] EXCEPT !.left = @ - 1]],
            !.age = [k \in Keys |-> Min(cache.age[k] + 1, CacheTtl)]]
    /\ cache' # cache
    /\ UNCHANGED not_cache

CacheNext ==
    \/ \E client \in {"None", "client"} : InitRedis(client)
    \/ \E kind \in Kinds, args \in Args : CachedCall(kind, args)
    \/ \E answer \in {"ok", "error"} : CacheGet(answer)
    \/ \E value \in Values : CacheCall(value)
    \/ \E answer \in {"ok", "error"} : CacheStore(answer)
    \/ \E value \in Values : CacheAwait(value)
    \/ CacheTick

----------------------------------------------------------------------------
(* services.memory_manager.MemoryManager: get_browser_instance (lines      *)
(* 73-100), _release_browser_instance (119-130), cleanup_browsers          *)
(* (136-146) and _cleanup_old_browsers (148-154), instance by instance     *)

\* the instances that can be created
Instances == 1..MaxInstances

\* an instance pool that hands out an instance again
NewInstanceReused(p) == 1

\* _create_browser_instance (lines 102-117): every call launches a browser
\* of its own
NewInstance(p) == p.next

\* browser.close() is called on the instances of bs
Closed(closes, bs) ==
    [b \in Instances |-> IF b \in bs THEN Min(closes[b] + 1, 2) ELSE closes[b]]

NewPool ==
    [active |-> {}, lock |-> 0, next |-> 1,
     pc |-> [g \in Getters |-> "idle"], held |-> [g \in Getters |-> 0],
     handed |-> [b \in Instances |-> 0], closes |-> [b \in Instances |-> 0],
     evict |-> {}]

InstanceInit == pool = NewPool

\* lines 76-81: get_browser_instance is called and passes the memory
\* check (a call that ends in MemoryError there leaves nothing behind)
InstEnter(g) ==
    /\ pool.pc[g] = "idle"
    /\ pool.next <= MaxInstances
    /\ pool' = [pool EXCEPT !.pc[g] = "lock"]
    /\ UNCHANGED not_instances

\* lines 84-93: under the lock, _cleanup_old_browsers at capacity (its
\* _release_browser_instance waits for the lock this caller holds), else
\* the creation, the add and the yield
InstCreate(g, created) ==
    /\ pool.pc[g] = "lock"
    /\ pool.lock = 0
    /\ \E sel \in (IF AtCapacity(pool.active)
                     THEN CleanupSelections(pool.active) ELSE {{}}) :
         pool' =
            IF sel # {}
              THEN [pool EXCEPT !.lock = g, !.pc[g] = "stuck"]
            ELSE IF created
              THEN [pool EXCEPT
                      !.active = @ \cup {NewInstance(pool)},
                      !.next = @ + 1,
                      !.held[g] = NewInstance(pool),
                      !.handed[NewInstance(pool)] = Min(@ + 1, 2),
                      !.pc[g] = "yielded"]
            ELSE [pool EXCEPT !.pc[g] = "idle"]
    /\ UNCHANGED not_instances

\* lines 98-100 and 119-130: the caller leaves the context;
\* _release_browser_instance removes the instance if it is still in the
\* set and closes it in any case
InstRelease(g) ==
    /\ pool.pc[g] = "yielded"
    /\ pool.lock = 0
    /\ pool' = [pool EXCEPT
            !.active = @ \ {pool.held[g]},
            !.closes = Closed(@, {pool.held[g]}),
            !.held[g] = 0,
            !.pc[g] = "idle"]
    /\ UNCHANGED not_instances

\* _cleanup_old_browsers called by _handle_memory_warning (lines 148-152,
\* 247-256): browsers_to_remove is chosen
InstSelect(sel) ==
    /\ pool.evict = {}
    /\ sel \in CleanupSelections(pool.active)
    /\ sel # {}
    /\ pool' = [pool EXCEPT !.evict = sel]
    /\ UNCHANGED not_instances

\* lines 153-154: one _release_browser_instance of the loop
InstEvict(b) ==
    /\ b \in pool.evict
    /\ pool.lock = 0
    /\ pool' = [pool EXCEPT
            !.active = @ \ {b},
            !.closes = Closed(@, {b}),
            !.evict = @ \ {b}]
    /\ UNCHANGED not_instances

\* cleanup_browsers (lines 136-146)
InstCleanup ==
    /\ pool.lock = 0
    /\ pool.active # {}
    /\ pool' = [pool EXCEPT !.active = {},
                            !.closes = Closed(@, pool.active)]
    /\ UNCHANGED not_instances

InstanceNext ==
    \/ \E g \in Getters : InstEnter(g)
    \/ \E g \in Getters, created \in BOOLEAN : InstCreate(g, created)
    \/ \E g \in Getters : InstRelease(g)
    \/ \E sel \in SUBSET Instances : InstSelect(sel)
    \/ \E b \in Instances : InstEvict(b)
    \/ InstCleanup

----------------------------------------------------------------------------
(* services.memory_manager.MemoryManager: _record_memory_usage (lines      *)
(* 270-287), _cleanup_memory_history (238-245) and the loop of             *)
(* _memory_monitoring_task (156-177)                                       *)

HistoryInit == hist = [now |-> 0, memory_history |-> <<>>]

\* self.memory_history.append(record) (lines 272-278)
Recorded(history, now) == Append(history, now)

\* one round of _memory_monitoring_task: the sample is recorded (line
\* 163), then the task sleeps MEMORY_CHECK_INTERVAL (line 173), or 10
\* seconds when the redis write or a handler raised (lines 175-177)
RecordMemoryUsage(redis_ok) ==
    /\ hist.now < MaxTicks
    /\ hist' = [now |-> Min(hist.now + (IF redis_ok THEN 1 ELSE 2), MaxTicks),
                memory_history |-> Recorded(hist.memory_history, hist.now)]
    /\ UNCHANGED not_history

\* the records newer than the cutoff (lines 241-245)
NewerThan(history, cutoff_time) ==
    LET Newer(timestamp) == timestamp > cutoff_time
    IN  SelectSeq(history, Newer)

\* _cleanup_memory_history, called by _perform_cleanup (line 209)
CleanupMemoryHistory ==
    /\ hist' = [hist EXCEPT !.memory_history =
                    NewerThan(@, hist.now - HistoryCutoff)]
    /\ hist' # hist
    /\ UNCHANGED not_history

HistoryNext ==
    \/ \E redis_ok \in BOOLEAN : RecordMemoryUsage(redis_ok)
    \/ CleanupMemoryHistory

----------------------------------------------------------------------------
(* AsyncCrawlerService.semaphore (crawler.py lines 62, 115): the callers   *)
(* of crawl_website at asyncio.Semaphore                                   *)

Callers == 1..NumCallers

\* the callers whose future is set and who have not run since
Resuming(s) == {c \in Callers : s.pc[c] \in {"woken", "granted"}}

\* the test of Semaphore.acquire before it waits: `self._value > 0` in the
\* legacy one, `not self.locked()` in the fair one, where the semaphore
\* is locked while a waiter is left
CanTake(s) ==
    IF s.version = "legacy" THEN s.value > 0
    ELSE s.value > 0 /\ s.waiters = <<>> /\ Resuming(s) = {}

\* a semaphore that wakes the waiter that came last
WakeUpLast(s) ==
    LET last == s.waiters[Len(s.waiters)]
    IN  IF s.waiters = <<>> \/ s.value = 0 THEN s
        ELSE IF s.version = "legacy"
          THEN [s EXCEPT !.waiters = RemoveWaiter(@, last),
                         !.pc[last] = "woken"]
        ELSE [s EXCEPT !.waiters = RemoveWaiter(@, last),
                       !.pc[last] = "granted",
                       !.value = @ - 1,
                       !.arrivals = RemoveWaiter(@, last)]

\* _wake_up_next: the first waiter's future is set; the fair semaphore
\* gives it the slot with it
WakeUpNext(s) ==
    IF s.waiters = <<>> \/ s.value = 0 THEN s
    ELSE IF s.version = "legacy"
      THEN [s EXCEPT !.waiters = Tail(@), !.pc[Head(s.waiters)] = "woken"]
    ELSE [s EXCEPT !.waiters = Tail(@), !.pc[Head(s.waiters)] = "granted",
                   !.value = @ - 1,
                   !.arrivals = RemoveWaiter(@, Head(s.waiters))]

NewSlots ==
    [version |-> "unset", value |-> 0, waiters |-> <<>>,
     pc |-> [c \in Callers |-> "out"], arrivals |-> <<>>]

QueueInit == slots = NewSlots

\* AsyncCrawlerService.__init__ (line 62): asyncio.Semaphore(max_concurrent)
\* of the interpreter in use
SemCreate(version) ==
    /\ slots.version = "unset"
    /\ slots' = [slots EXCEPT !.version = version, !.value = max_concurrent]
    /\ UNCHANGED not_queue

\* async with self.semaphore (line 115): Semaphore.acquire takes a slot at
\* once or starts to wait
SemEnter(c) ==
    /\ slots.version # "unset"
    /\ slots.pc[c] = "out"
    /\ slots' = IF CanTake(slots)
                  THEN [slots EXCEPT !.value = @ - 1, !.pc[c] = "holding"]
                  ELSE [slots EXCEPT !.waiters = Append(@, c),
                                     !.arrivals = Append(@, c),
                                     !.pc[c] = "waiting"]
    /\ UNCHANGED not_queue

\* the caller runs again after its future was set: the legacy acquire
\* tests the value anew and waits again at the end of the queue when the
\* slot is gone; the fair one has the slot and wakes the next waiter when
\* a slot is left
SemResume(c) ==
    /\ slots.pc[c] \in {"woken", "granted"}
    /\ slots' =
        IF slots.pc[c] = "granted"
          THEN WakeUpNext([slots EXCEPT !.pc[c] = "holding"])
        ELSE IF slots.value > 0
          THEN [slots EXCEPT !.value = @ - 1, !.pc[c] = "holding",
                             !.arrivals = RemoveWaiter(@, c)]
        ELSE [slots EXCEPT !.waiters = Append(@, c), !.pc[c] = "waiting"]
    /\ UNCHANGED not_queue

\* crawl_website returns: Semaphore.release. The body of crawl_website
\* awaits, so the callers whose future was set before have run by then
SemLeave(c) ==
    /\ slots.pc[c] = "holding"
    /\ Resuming(slots) = {}
    /\ slots' = WakeUpNext([slots EXCEPT !.value = SemRelease(@),
                                         !.pc[c] = "out"])
    /\ UNCHANGED not_queue

QueueNext ==
    \/ \E version \in {"legacy", "fair"} : SemCreate(version)
    \/ \E c \in Callers : SemEnter(c)
    \/ \E c \in Callers : SemResume(c)
    \/ \E c \in Callers : SemLeave(c)

----------------------------------------------------------------------------
(* Specifications *)

Init ==
    /\ CrawlerInit /\ ManagerInit /\ AdmissionInit
    /\ ContentInit /\ AlertInit /\ PageInit
    /\ RetryInit /\ ExtractInit /\ ServiceInit /\ CacheInit
    /\ InstanceInit /\ HistoryInit /\ QueueInit

\* the scans on one AsyncCrawlerService
Next == CrawlerNext

\* every interleaving of the scans
Spec == Init /\ [][Next]_vars

\* the event loop runs every scan that can take a step
FairSpec == Spec /\ \A s \in Scans : WF_vars(ScanStep(s))

\* the tasks on one services.memory_manager.MemoryManager
PoolNext == ManagerNext

\* every interleaving of the tasks on the MemoryManager
PoolSpec == Init /\ [][PoolNext]_vars

\* the event loop runs every task that can take a step
PoolFairSpec ==
    /\ PoolSpec
    /\ \A g \in Getters : WF_vars(GetterStep(g))
    /\ WF_vars(MonitorStep)

\* the admission part of get_browser_instance, call by call
AdmissionSpec == Init /\ [][AdmissionNext]_vars

\* one call on a ContentCheckerService
ContentSpec == Init /\ [][ContentNext]_vars

\* one call of process_scan_result
AlertSpec == Init /\ [][AlertNext]_vars

\* the content of one page, on either path of the crawler
PageSpec == Init /\ [][PageNext]_vars

\* the attempts of one call of crawl_website with the default settings
RetrySpec == Init /\ [][RetryNext]_vars

\* one call of _extract_text_content_async
ExtractSpec == Init /\ [][ExtractNext]_vars

\* the calls of check_compliance, one after the other
ServiceSpec == Init /\ [][ServiceNext]_vars

\* the calls of the functions wrapped by cache_result
CacheSpec == Init /\ [][CacheNext]_vars

\* the callers of MemoryManager.get_browser_instance and the cleanups
InstanceSpec == Init /\ [][InstanceNext]_vars

\* the memory monitor and the cleanup of its history
HistorySpec == Init /\ [][HistoryNext]_vars

\* the callers at the semaphore, under either asyncio.Semaphore
QueueSpec == Init /\ [][QueueNext]_vars

----------------------------------------------------------------------------
(* Properties of the crawler *)

LiveInstances ==
    Cardinality({s \in Scans : scan[s].browser = "live"})
      + Cardinality({s \in Scans : scan[s].fb_browser = "live"})

\* C1: the number of simultaneously live browser instances (launched and
\* not yet closed) never exceeds the size of the capacity semaphore.
C1_CapacityInvariant == LiveInstances <= max_concurrent

\* positions inside `async with self.get_browser_instance() as browser`
InWithBrowser == {"setup", "goto", "settle", "scroll", "extract",
                  "retry_sleep_inner", "page_close", "browser_close"}

\* C2: every instance launched by get_browser_instance is closed exactly
\* once, however the attempt ends: it is open and unclosed inside the with
\* block, closed by one close() call when the block has been left, and no
\* instance survives the block.
C2_ReleaseExactlyOnce ==
    \A s \in Scans :
        /\ scan[s].pc \in InWithBrowser =>
               scan[s].browser = "live" /\ scan[s].close_calls = 0
        /\ scan[s].pc = "leave" =>
               scan[s].browser = "closed" /\ scan[s].close_calls = 1
        /\ scan[s].pc \notin InWithBrowser \cup {"leave"} =>
               scan[s].browser = "none"

\* a cancelled attempt has left the with block with its instance closed once
C2_Witness ==
    \E s \in Scans :
        /\ scan[s].pc = "leave"
        /\ scan[s].after = "cancel"
        /\ scan[s].browser = "closed"
        /\ scan[s].close_calls = 1

\* positions inside a crawl_website call
InCall == InSemaphore \cup {"sem_wait"}

SlotsHeld == Cardinality({s \in Scans : scan[s].pc \in InSemaphore})

\* what the caller of crawl_website receives
RaisedToCaller(val) == val \in {"Cancelled", "MemoryError"}

LaunchesBrowser(s) ==
    \/ scan[s].browser # "live" /\ scan'[s].browser = "live"
    \/ scan[s].fb_browser # "live" /\ scan'[s].fb_browser = "live"

\* C7: every browser launch of a scan, the degraded pass included, directly
\* follows a memory evaluation of that scan that reported safe.
C7_LaunchAfterSafeEvaluation ==
    [][\A s \in Scans : LaunchesBrowser(s) => scan[s].last_eval = "safe"]_vars

\* C8: a scan to which a cancellation was delivered is unwinding with it (or
\* has ended Cancelled); it does not go on with the crawl.
C8_CancelAborts ==
    \A s \in Scans :
        scan[s].cancelled =>
            scan[s].after = "cancel" \/ scan[s].result = "Cancelled"

----------------------------------------------------------------------------
(* Claims about services.memory_manager.MemoryManager and the monitors *)

GotBrowserOrRaised == {"yielded", "release", "done", "raised"}

\* C4: a get_browser_instance call that reaches the lock while
\* active_browsers is at max_browsers eventually yields an instance or
\* raises, and browser_lock, once held, is eventually free again.
C4_GetAtCapacityCompletes ==
    /\ \A g \in Getters :
          (getter[g].pc = "lock" /\ AtCapacity(active_browsers))
              ~> (getter[g].pc \in GotBrowserOrRaised)
    /\ (browser_lock # 0) ~> (browser_lock = 0)

\* C5: active_browsers never holds more than max_browsers instances.
C5_ActiveWithinMax == Cardinality(active_browsers) <= max_browsers

C10_EmergencySweeps ==
    (monitor.pc = "sleep" /\ monitor.usage >= EmergencyPercent)
        => (monitor.emergency = "done" /\ monitor.swept)

----------------------------------------------------------------------------
(* Claims about admission and wait_for_memory *)

\* C11 as stated: no call is admitted on a sample from 80 up to 90 percent,
\* nor after such a sample before a sample below 70 percent has been read.
C11_AdmissionPausedAfterCritical ==
    \A w \in Entrants :
        entrant[w].pc = "admitted" => ~entrant[w].paused

\* C11 amended: a call is admitted only on a sample strictly below the one
\* threshold of check_memory_safe; no pause is kept from earlier samples.
C11_AdmittedBelowThreshold ==
    \A w \in Entrants :
        entrant[w].pc = "admitted" => entrant[w].sample < memory_threshold

C11_Witness ==
    \E w \in Entrants :
        /\ entrant[w].pc = "admitted"
        /\ entrant[w].paused
        /\ entrant[w].sample = 75
        /\ entrant[w].rounds > 0

\* C12: wait_for_memory runs force_gc once in every polling round and ends
\* in one of two ways only: success on a sample strictly below the
\* threshold, or the memory-exhausted outcome, which its caller receives.
C12_WaitEndsSafeOrExhausted ==
    \A w \in Entrants :
        LET r == entrant[w]
        IN  /\ r.pc = "admitted" => r.sample < memory_threshold
            /\ r.pc = "raised" =>
                   r.outcome = "MemoryError" /\ r.sample >= memory_threshold
            /\ r.pc # "wm_gc" => r.gc_calls = r.rounds

----------------------------------------------------------------------------
(* Claims about ContentCheckerService *)

\* _check_text has returned a verdict
TextReturned == check.text_result # None

\* the place of a provider in the chain
Rank(provider) ==
    CASE provider = "baidu_ai" -> 1
      [] provider = "aliyun" -> 2
      [] provider = "local_detection" -> 3

\* C13: for one text the providers are called in the order Baidu, Aliyun,
\* local heuristic, each at most once; a provider is called only when
\* every provider called before it gave no usable answer, and the verdict
\* returned is the answer of the first provider that gave a usable one.
C13_ProviderChain ==
    /\ \A j, k \in 1..Len(check.calls) :
            j < k => Rank(check.calls[j]) < Rank(check.calls[k])
    /\ \A k \in 1..(Len(check.calls) - 1) : check.answers[k] = None
    /\ TextReturned =>
            /\ check.calls # <<>>
            /\ check.answers[Len(check.calls)] = check.text_result
            /\ check.text_result.method = check.calls[Len(check.calls)]

\* the Baidu API failed, the Aliyun stub gave nothing, and the verdict is
\* the one of the local heuristic, third in the chain
C13_Witness ==
    /\ TextReturned
    /\ check.calls = <<"baidu_ai", "aliyun", "local_detection">>
    /\ check.text_result.method = "local_detection"

\* the Baidu API answered and nothing else was called
C13_WitnessFirst ==
    /\ TextReturned
    /\ check.calls = <<"baidu_ai">>
    /\ check.key

\* no call of an external provider gave a usable answer
ExternalFailed ==
    /\ \A k \in 1..Len(check.calls) :
            check.calls[k] # "local_detection" => check.answers[k] = None
    /\ \A k \in 1..Len(check.image_results) :
            check.image_results[k].method # "baidu_ai"

\* the call has ended
Ended == check.pc \in {"done", "raised"}

\* C14: when no external provider gives a usable answer, a call of
\* check_content_safety or _check_text on a str text neither raises nor
\* ends in the except clause; the text verdict and every image verdict it
\* returns come from the local heuristic and the result is not the fallback
\* result.
C14_LocalVerdictWhenExternalFail ==
    (check.text # NoneText /\ ExternalFailed) =>
        /\ check.pc \notin {"except", "raised"}
        /\ TextReturned => check.text_result.method = "local_detection"
        /\ (check.pc = "images" \/ Ended) => TextReturned
        /\ (Ended /\ check.entry = "check_content_safety") =>
                /\ check.result.detection_method # "fallback"
                /\ check.result.text_result.method = "local_detection"
                /\ \A k \in 1..Len(check.result.image_results) :
                        check.result.image_results[k].method
                            = "local_detection"

\* the Baidu API was asked for the text and for two images and failed every
\* time; the result holds the verdicts of the local heuristic
C14_Witness ==
    /\ check.pc = "done"
    /\ check.entry = "check_content_safety"
    /\ check.token
    /\ check.calls = <<"baidu_ai", "aliyun", "local_detection">>
    /\ ExternalFailed
    /\ Len(check.result.image_results) = 2
    /\ ~check.result.text_result.compliant

Summarised ==
    /\ check.pc = "done"
    /\ check.entry = "check_content_safety"
    /\ check.result.detection_method # "fallback"

\* C16: the detection method of the final verdict names the provider that
\* produced the answer, the first of the chain that gave a usable one.
C16_DetectionMethodNamesProvider ==
    Summarised =>
        check.result.detection_method = check.calls[Len(check.calls)]

\* the confidences the providers returned for this request
ProviderConfidences ==
    {check.result.text_result.confidence}
    \cup {check.result.image_results[k].confidence :
                k \in 1..Len(check.result.image_results)}

\* C17: the confidence reported with the verdict is a confidence that a
\* provider returned for this request, never a blend of several.
C17_ConfidenceAsReturned ==
    Summarised => check.result.overall_confidence \in ProviderConfidences

\* the text holds a keyword of the category
CategoryHit(category, text) ==
    \E k \in 1..Len(sensitive_keywords[category]) :
        In(sensitive_keywords[category][k], text)

\* the categories of the taxonomy
CategorySet == {Categories[k] : k \in 1..Len(Categories)}

\* the external providers gave no verdict for the text and _check_text has
\* returned
LocalTextVerdict ==
    /\ TextReturned
    /\ check.text # NoneText
    /\ \A k \in 1..Len(check.calls) :
            check.calls[k] # "local_detection" => check.answers[k] = None

\* C19: with the external providers failing, the text verdict is
\* non-compliant exactly when the text holds a keyword of the taxonomy; its
\* violations are one entry for each category with a hit, typed with the
\* category, and its method is the local heuristic.
C19_LocalVerdictByKeywords ==
    LocalTextVerdict =>
        LET r == check.text_result
        IN  /\ r.method = "local_detection"
            /\ r.compliant <=>
                    ~\E c \in CategorySet : CategoryHit(c, check.text)
            /\ \A c \in CategorySet :
                    Cardinality({k \in 1..Len(r.violations) :
                                    r.violations[k].type = c})
                        = IF CategoryHit(c, check.text) THEN 1 ELSE 0
            /\ \A k \in 1..Len(r.violations) :
                    r.violations[k].type \in CategorySet

\* a text with two gambling keywords and a porn keyword, judged by the
\* local heuristic: one gambling entry and one porn entry
C19_Witness ==
    /\ LocalTextVerdict
    /\ In(sensitive_keywords["gambling"][1], check.text)
    /\ In(sensitive_keywords["gambling"][2], check.text)
    /\ CategoryHit("porn", check.text)
    /\ Len(check.text_result.violations) = 2
    /\ ~check.text_result.compliant

----------------------------------------------------------------------------
(* Claims about AlertIntegration *)

\* the place of a severity in the order low < medium < high < critical
SeverityRank(severity) ==
    CASE severity = "low" -> 1
      [] severity = "medium" -> 2
      [] severity = "high" -> 3
      [] severity = "critical" -> 4

\* C18: the severity of the alert built for a scan result is the greatest,
\* under low < medium < high < critical, of the severities of all the
\* violations of the result.
C18_SeverityIsMaximum ==
    alert.severity # "none" =>
        /\ \A k \in 1..Len(alert.violations) :
                SeverityRank(DetermineSeverity(alert.violations[k]))
                    <= SeverityRank(alert.severity)
        /\ \E k \in 1..Len(alert.violations) :
                DetermineSeverity(alert.violations[k]) = alert.severity

----------------------------------------------------------------------------
(* Claims about the page content *)

\* C20: every page content that crawl_website or crawl_with_fallback
\* returns has a text no longer than the text cap, of exactly the cap when
\* the extracted text is longer, and no more images than the image cap.
C20_ContentCapped ==
    page.pc = "returned" =>
        /\ page.text <= TextCap
        /\ page.extracted > TextCap => page.text = TextCap
        /\ page.images <= max_images

----------------------------------------------------------------------------
(* Claims about retries and the degraded pass *)

\* scan s takes a step of its own that is not the delivery of a cancellation
Proceeds(s) == scan'[s] # scan[s] /\ ~scan'[s].cancelled

\* page.goto of scan s fails in this step
GotoFails(s) ==
    scan[s].pc = "goto" /\ Proceeds(s) /\ scan'[s].pc # "settle"

\* C21: a failed navigation of an attempt before the last one sends the
\* scan to the retry delay and on to the next attempt, without a result; a
\* failed navigation of attempt number retry_times, the last of the
\* retry_times + 1, ends the call with the failure; no attempt has a higher
\* number, and an attempt that returned a page is followed by no other.
C21_RetriesThenFails ==
    [][\A s \in Scans :
        /\ scan'[s].attempt <= retry_times
        /\ GotoFails(s) =>
                IF scan[s].attempt < retry_times
                  THEN /\ scan'[s].pc = "retry_sleep_inner"
                       /\ scan'[s].attempt = scan[s].attempt
                       /\ scan'[s].result = "pending"
                  ELSE /\ scan'[s].pc = "page_close"
                       /\ scan'[s].after = "return_None"
        /\ (scan[s].pc = "leave" /\ Proceeds(s)) =>
                CASE scan[s].after = "next_attempt" ->
                        /\ scan'[s].pc = "cw_check"
                        /\ scan'[s].attempt = scan[s].attempt + 1
                  [] scan[s].after = "return_None" ->
                        \/ scan'[s].pc = "done" /\ scan'[s].result = "None"
                        \/ scan'[s].pc = "fb_launch"
                  [] scan[s].after \in {"return_page", "return_page_empty"} ->
                        scan'[s].pc \in {"done", "fb_launch"}
                  [] OTHER -> TRUE]_vars

\* the navigation of the last of the retry_times + 1 attempts is under way
C21_Witness ==
    \E s \in Scans :
        /\ scan[s].pc = "goto"
        /\ scan[s].attempt = retry_times
        /\ retry_times > 0

RECURSIVE Pow2(_)
\* 2^k
Pow2(k) == IF k = 0 THEN 1 ELSE 2 * Pow2(k - 1)

\* C22: the delay waited after failed attempt number k is the base delay
\* times 2^k, so each retry delay is twice the one before.
C22_DelayDoubles ==
    \A k \in 1..Len(retry.delays) :
        retry.delays[k] = CRAWLER_RETRY_DELAY * Pow2(k - 1)

\* the positions of the degraded pass
InDegraded == {"fb_launch", "fb_new_page", "fb_goto", "fb_extract", "fb_close"}

\* scan s enters the degraded pass in this step
EntersDegraded(s) ==
    scan[s].pc \notin InDegraded /\ scan'[s].pc = "fb_launch"

\* C23: the degraded pass of crawl_with_fallback starts only after two
\* attempts of the full pipeline have failed one after the other, never
\* after the full pipeline returned a page with text, and at most once in
\* a scan.
C23_DegradedAfterTwoFailures ==
    [][\A s \in Scans :
        /\ EntersDegraded(s) =>
                /\ scan[s].attempt >= 1
                /\ ~(scan[s].pc = "leave" /\ scan[s].after = "return_page")
        /\ scan[s].pc \in InDegraded =>
                scan'[s].pc \in InDegraded \cup {"done"}
        /\ scan[s].pc \in InDegraded \ {"fb_launch"} =>
                scan'[s].pc # "fb_launch"]_vars

\* C24: the degraded pass is lighter than the full pipeline: its navigation
\* timeout is shorter than the one of crawl_website, and the text it
\* returns is within a cap smaller than the cap of crawl_website.
C24_DegradedIsLighter ==
    (page.pc = "returned" /\ page.path = "crawl_with_fallback") =>
        /\ page.goto_timeout < BROWSER_TIMEOUT
        /\ FallbackBodyTextCap < TextCap
        /\ page.text <= FallbackBodyTextCap

----------------------------------------------------------------------------
(* Claims about the text extraction *)

\* the selectors of the main content, in the order of the list
MainContent ==
    <<"main", "article", "div[role='main']", ".content", "#content",
      ".main-content">>

\* the main-content selectors that yield text on this page
MainWithText == {k \in 1..Len(MainContent) : ext.yields[MainContent[k]] = "text"}

\* C25: the text returned is the text of the first main-content selector
\* that yields text; the text of the whole body when none of them does;
\* the text of the visible-text walk when no selector yields text.
C25_MainContentFirst ==
    ext.pc = "returned" =>
        ext.result =
            IF MainWithText # {}
              THEN MainContent[CHOOSE k \in MainWithText :
                                    \A j \in MainWithText : k <= j]
            ELSE IF ext.yields["body"] = "text" THEN "body"
            ELSE IF ext.walk = "text" THEN "walk"
            ELSE ""

----------------------------------------------------------------------------
(* Claims about check_compliance *)

\* C26: when the crawl gave no text (None, or a result with empty text),
\* check_compliance returns a failure without a verdict and has not called
\* the content classifier.
C26_NoVerdictOnEmptyExtraction ==
    (job.pc = "returned" /\ job.website_data.text = "") =>
        /\ ~job.classified
        /\ job.result.status = "error"


\* C27: the result of a scan whose crawl ended for lack of capacity (the
\* memory stayed unsafe, MemoryError) is never a result that a scan whose
\* crawl failed at navigation also gets: the caller can tell them apart.
C27_CapacityUnavailableDistinct ==
    job.admission_results \cap job.navigation_results = {}

\* C28: a scan of the empty target takes no semaphore slot, launches no
\* browser, navigates nowhere and classifies nothing, and what it returns
\* is an invalid-request failure, not the failure of a crawl.
C28_EmptyTargetRejected ==
    (job.domain = "" /\ job.pc # "idle") =>
        /\ ~job.acquired
        /\ ~job.launched
        /\ ~job.navigated
        /\ ~job.classified
        /\ job.pc = "returned" => job.result # CrawlFailed

----------------------------------------------------------------------------
(* Claims about cache_result *)

\* the body of the wrapped function runs in this step
Executes == ~cache.executed /\ cache'.executed

\* C29: with the cache in use, the body of a wrapped function (the plain
\* one or the coroutine function) does not run in a call whose arguments
\* are those of a call that completed less than the ttl ago: that call
\* returns what was stored.
C29_HitSkipsOperation ==
    [][(Executes /\ cache.redis_client = "client") =>
            cache.age[Key] >= CacheTtl]_vars

\* C30: a call in which redis_client.get raised does not raise: it ends
\* with the wrapped function executed.
C30_ReadErrorTolerated ==
    cache.read_error =>
        /\ cache.pc # "raised"
        /\ cache.pc = "returned" => cache.executed

----------------------------------------------------------------------------
(* Claims about the alerts *)

\* process_scan_result went on to build and send an alert
AlertEmitted == alert.pc \in {"build", "create"} \/ alert.outcome # "none"

\* C31: with alerts enabled, an alert is emitted for a scan result exactly
\* when its verdict is non-compliant and one of its violations has a
\* confidence strictly greater than the alert threshold.
C31_AlertIffExceedsThreshold ==
    (alert.pc # "idle" /\ alert.enabled) =>
        (AlertEmitted <=>
            /\ ~alert.compliant
            /\ \E k \in 1..Len(alert.violations) :
                    alert.violations[k].confidence > alert_threshold)

\* C32: when the alert client raises or gives no response, _create_alert
\* gives None and process_scan_result returns None: the failure does not
\* leave the call, and the scan result is as it was passed.
C32_DeliveryFailureContained ==
    (alert.pc = "done" /\ alert.outcome \in {"raises", "None"}) =>
        /\ alert.response = "None"
        /\ alert.returned = "None"

\* an alert was due and the alert client raised
C32_Witness ==
    /\ alert.pc = "done"
    /\ alert.outcome = "raises"
    /\ ShouldCreateAlert(alert.violations)

----------------------------------------------------------------------------
(* Claims about the browser instances *)

\* C33: no instance is held by two callers at once, and no instance is
\* handed out a second time: each is yielded to one caller, once.
C33_InstanceOwnedOnce ==
    /\ \A g, h \in Getters :
            (g # h /\ pool.held[g] # 0) => pool.held[g] # pool.held[h]
    /\ \A b \in Instances : pool.handed[b] <= 1

\* two callers hold an instance each while an earlier instance has been
\* released
C33_Witness ==
    \E g, h \in Getters :
        /\ g # h
        /\ pool.held[g] # 0
        /\ pool.held[h] # 0
        /\ \E b \in Instances :
                b \notin pool.active /\ pool.closes[b] = 1 /\ pool.handed[b] = 1


\* C35: the instances that _cleanup_old_browsers releases are the oldest:
\* every instance it has chosen is older than every active instance it
\* has not chosen.
C35_EvictsOldestFirst ==
    \A b \in pool.evict :
        \A a \in pool.active \ pool.evict : b < a

\* C37: close() is called at most once on every instance, and the instance
\* of a caller that has left get_browser_instance has been closed.
C37_ClosedExactlyOnce ==
    \A b \in Instances :
        /\ pool.closes[b] <= 1
        /\ (/\ pool.handed[b] = 1
            /\ \A g \in Getters : pool.held[g] # b) => pool.closes[b] = 1

----------------------------------------------------------------------------
(* Claims about the memory history *)

\* C34: memory_history never holds more records than a fixed bound, here
\* the number of samples of the 24 hours that the cleanup keeps: a sample
\* appended to a full history evicts the oldest.
C34_HistoryBounded == Len(hist.memory_history) <= HistoryCutoff

----------------------------------------------------------------------------
(* Claims about the queue at the semaphore *)

\* caller c has a slot
HasSlot(s, c) == s.pc[c] \in {"granted", "holding"}

\* C36: the callers that wait for a slot get one in the order in which
\* they started to wait: a caller that has waited gets a slot only when
\* no caller that started to wait before it is still without one.
C36_FifoAdmission ==
    [][\A c \in Callers :
        (/\ ~HasSlot(slots, c)
         /\ HasSlot(slots', c)
         /\ \E k \in 1..Len(slots.arrivals) : slots.arrivals[k] = c)
            => Head(slots.arrivals) = c]_vars


\* caller c, which has waited, gets a slot in this step
AdmittedFromQueue(c) ==
    /\ ~HasSlot(slots, c)
    /\ HasSlot(slots', c)
    /\ \E k \in 1..Len(slots.arrivals) : slots.arrivals[k] = c

\* C36, as it holds: under the asyncio.Semaphore of Python 3.11 and later
\* the callers that wait get their slots in the order in which they
\* started to wait.
C36_FifoWhenFair ==
    [][slots.version = "fair" =>
        \A c \in Callers :
            AdmittedFromQueue(c) => Head(slots.arrivals) = c]_vars

\* under the fair semaphore a caller that waited has been given the slot
\* while a caller that came after it still waits
C36_Witness ==
    /\ slots.version = "fair"
    /\ \E c \in Callers : slots.pc[c] = "granted"
    /\ slots.arrivals # <<>>


----------------------------------------------------------------------------
(* the capacity semaphore of AsyncCrawlerService *)

\* the calls of crawl_website that have all returned
AllReturned == \A s \in Scans : scan[s].pc \notin InCall \cup {"idle"}

\* C38: the slots taken from the capacity semaphore are those of the
\* crawl_website calls between the acquisition and the return; the step in
\* which a call leaves the `async with self.semaphore` block, by whichever
\* exit, gives back one slot, no other step of the call gives one back, and
\* once every call has returned all the slots are free.
C38_SlotsMatchCallsInFlight ==
    /\ [](max_concurrent - semaphore = SlotsHeld)
    /\ [](AllReturned => semaphore = max_concurrent)
    /\ [][\A s \in Scans :
            /\ (scan[s].pc \in InSemaphore /\ scan'[s].pc \notin InSemaphore)
                   => semaphore' = semaphore + 1
            /\ (scan[s].pc \in InSemaphore /\ scan'[s].pc \in InSemaphore
                    /\ scan'[s] # scan[s])
                   => semaphore' = semaphore]_vars

\* one call was cancelled and the other failed its last attempt, both have
\* returned, and every slot is free
C38_Witness ==
    \E s, t \in Scans :
        /\ scan[s].pc = "done" /\ scan[s].result = "Cancelled"
        /\ scan[t].pc = "done" /\ scan[t].result = "None"
        /\ semaphore = max_concurrent


----------------------------------------------------------------------------
(* the browsers of the attempts of one crawl_website call *)

\* the instances a call has launched and not closed
LiveBrowsers(s) == scan[s].launched - scan[s].closed

\* C39: the instance of a failed attempt is closed before the next attempt
\* of the same crawl_website call launches its own, so a call holds at most
\* one live instance at any moment: the one of the failed attempt during the
\* retry delay inside the with block, none during the retry delay of the
\* outer handler and none in the step that launches.
C39_OneLiveBrowserPerCall ==
    /\ [](\A s \in Scans :
            /\ LiveBrowsers(s) \in {0, 1}
            /\ LiveBrowsers(s) = 1 <=> scan[s].browser = "live"
            /\ scan[s].pc = "retry_sleep_inner" => LiveBrowsers(s) = 1
            /\ scan[s].pc = "retry_sleep_outer" => LiveBrowsers(s) = 0)
    /\ [][\A s \in Scans :
            scan'[s].launched # scan[s].launched =>
                /\ LiveBrowsers(s) = 0
                /\ scan'[s].launched = scan[s].launched + 1
                /\ scan'[s].closed = scan[s].closed]_vars

\* the second attempt of a call runs with its instance while the instance
\* of the failed first attempt has been closed
C39_Witness ==
    \E s \in Scans :
        /\ scan[s].attempt = 1
        /\ scan[s].launched = 2
        /\ scan[s].closed = 1
        /\ scan[s].browser = "live"

====
